---------------------------- MODULE Spec2Model ----------------------------
(***************************************************************************)
(* ReviewScope: the analysis pipeline of src/modules/analyzer.py           *)
(* (AmazonAnalyzer.analyze_file -> clean_data -> perform_analysis) and the *)
(* correlation heatmap of src/modules/dashboard.py that consumes the       *)
(* result document.                                                        *)
(*                                                                         *)
(* Representation.  A string is a tuple of one-character strings, so that  *)
(* regular-expression replacement, extraction and numeric parsing are      *)
(* computed character by character.  A cell of a DataFrame column is one   *)
(* of Str(s), Num(v) or NaN.  A float is held in hundredths (19.99 is      *)
(* Num(1999)); the datasets of the model carry at most two fraction        *)
(* digits.  A mean or median is the exact fraction num/den of hundredths;  *)
(* a defined standard deviation or Pearson coefficient is kept as the      *)
(* column(s) it is computed from, an undefined one is NaN.                 *)
(***************************************************************************)
EXTENDS Integers, Sequences, FiniteSets, TLC

VARIABLES pc, readable, columns, csv, output_file, progress_callback, df,
          results, artifact, progress, error, chart,
          insights_pc, insights, formatted,
          clock, active_jobs, records, jobs_lock, threads, data_files,
          analysis_files

(* the state of one analyze_file call and of the dashboard built from it *)
analyzerVars == <<pc, readable, columns, csv, output_file, progress_callback,
                  df, results, artifact, progress, error, chart>>

(* the argument and the result of one format_insights call *)
serperVars == <<insights_pc, insights, formatted>>

(* the web application: the clock, the job registry and the job records *)
(* it refers to, the lock, the request and job threads, and the files    *)
(* of the data and results folders                                       *)
appVars == <<clock, active_jobs, records, jobs_lock, threads, data_files,
             analysis_files>>

vars == <<analyzerVars, serperVars, appVars>>

(* what an analyze_file call leaves alone *)
otherVars == <<serperVars, appVars>>

(* the result of a format_insights call that has not returned *)
NoInsights == [raised |-> FALSE]

(* no format_insights call is made *)
SerperIdle ==
    /\ insights_pc = "idle"
    /\ insights = <<>>
    /\ formatted = NoInsights

(* the web application right after start: no job and no request *)
AppIdle ==
    /\ clock = 0
    /\ active_jobs = <<>>
    /\ records = <<>>
    /\ jobs_lock = 0
    /\ threads = <<>>
    /\ data_files = {}
    /\ analysis_files = <<>>

OtherIdle == SerperIdle /\ AppIdle

-----------------------------------------------------------------------------
(* Cell values *)

NaN == [k |-> "nan"]

Num(v) == [k |-> "num", v |-> v]

Str(s) == [k |-> "str", s |-> s]

IsNaN(x) == x.k = "nan"

IsStr(x) == x.k = "str"

IsNum(x) == x.k = "num"

Digits == {"0", "1", "2", "3", "4", "5", "6", "7", "8", "9"}

DigitVal(c) ==
    CASE c = "0" -> 0 [] c = "1" -> 1 [] c = "2" -> 2 [] c = "3" -> 3
      [] c = "4" -> 4 [] c = "5" -> 5 [] c = "6" -> 6 [] c = "7" -> 7
      [] c = "8" -> 8 [] c = "9" -> 9

AllDigits(s) == \A i \in 1..Len(s) : s[i] \in Digits

RECURSIVE DigitsValue(_)
DigitsValue(s) ==
    IF s = <<>> THEN 0
    ELSE DigitsValue(SubSeq(s, 1, Len(s) - 1)) * 10 + DigitVal(s[Len(s)])

Map(col, F(_)) == [i \in 1..Len(col) |-> F(col[i])]

RECURSIVE SumSeq(_)
SumSeq(s) == IF s = <<>> THEN 0 ELSE s[1] + SumSeq(Tail(s))

Count(s, P(_)) == Cardinality({i \in 1..Len(s) : P(s[i])})

-----------------------------------------------------------------------------
(* String operations used by the normalizer *)

(* re.sub('[$,]', '', s) and s.replace(',', ''): delete the characters of cs *)
RemoveChars(s, cs) == SelectSeq(s, LAMBDA c : c \notin cs)

(* str.strip(): drop leading and trailing blanks *)
Strip(s) ==
    LET keep == {i \in 1..Len(s) : s[i] # " "}
    IN  IF keep = {} THEN <<>>
        ELSE LET lo == CHOOSE i \in keep : \A j \in keep : i <= j
                 hi == CHOOSE i \in keep : \A j \in keep : i >= j
             IN  SubSeq(s, lo, hi)

(* the end of the longest run of digits of s that starts at i (i - 1 if none) *)
RECURSIVE DigitRunEnd(_, _)
DigitRunEnd(s, i) ==
    IF i <= Len(s) /\ s[i] \in Digits THEN DigitRunEnd(s, i + 1) ELSE i - 1

(* re.search(r'(\d+\.\d+)', s): the leftmost match, digits taken greedily; *)
(* NaN when nothing matches (str.extract leaves NaN)                       *)
ExtractFloat(s) ==
    LET matchAt(i) ==
            LET e == DigitRunEnd(s, i)
            IN  /\ e >= i
                /\ e + 2 <= Len(s)
                /\ s[e + 1] = "."
                /\ s[e + 2] \in Digits
        starts == {i \in 1..Len(s) : matchAt(i)}
    IN  IF starts = {} THEN NaN
        ELSE LET i == CHOOSE a \in starts : \A b \in starts : a <= b
                 e == DigitRunEnd(s, i)
             IN  Str(SubSeq(s, i, DigitRunEnd(s, e + 2)))

(* pd.to_numeric(s, errors='coerce') of one string: an optional sign, digits *)
(* and an optional fraction give the number (in hundredths), all else NaN   *)
ToNumeric(s) ==
    LET neg  == s # <<>> /\ s[1] = "-"
        body == IF neg THEN Tail(s) ELSE s
        sgn  == IF neg THEN -1 ELSE 1
        dots == {i \in 1..Len(body) : body[i] = "."}
    IN  IF body = <<>> THEN NaN
        ELSE IF dots = {}
        THEN IF AllDigits(body) THEN Num(sgn * DigitsValue(body) * 100) ELSE NaN
        ELSE IF Cardinality(dots) > 1 THEN NaN
        ELSE LET d  == CHOOSE i \in dots : TRUE
                 ip == SubSeq(body, 1, d - 1)
                 fp == SubSeq(body, d + 1, Len(body))
             IN  IF ip # <<>> /\ AllDigits(ip) /\ AllDigits(fp) /\ Len(fp) <= 2
                 THEN Num(sgn * (DigitsValue(ip) * 100
                                 + (IF Len(fp) = 1 THEN 10 ELSE 1) * DigitsValue(fp)))
                 ELSE NaN

(* astype(int) of a float held in hundredths: truncation toward zero *)
AsInt(v) == IF v >= 0 THEN v \div 100 ELSE -((-v) \div 100)

-----------------------------------------------------------------------------
(* pd.read_csv: column type inference *)

NA_N_A == <<"N", "/", "A">>

(* the cells read_csv reads as missing (its default na_values) *)
NaValues == {<<>>, NA_N_A}

(* One column of the file.  A column without rows, or with a cell that is *)
(* neither missing nor a number, is an object column of strings; a column *)
(* of integers without a missing cell is int64; any other is float64.     *)
InferColumn(cells) ==
    LET isNA(c)  == c \in NaValues
        isNum(c) == ~ IsNaN(ToNumeric(c))
        isInt(c) == isNum(c) /\ \A i \in 1..Len(c) : c[i] # "."
        all(P(_)) == \A i \in 1..Len(cells) : P(cells[i])
    IN  IF cells = <<>> THEN [dtype |-> "object", vals |-> <<>>]
        ELSE IF all(isInt)
        THEN [dtype |-> "int64", vals |-> Map(cells, ToNumeric)]
        ELSE IF all(LAMBDA c : isNA(c) \/ isNum(c))
        THEN [dtype |-> "float64",
              vals |-> Map(cells, LAMBDA c : IF isNA(c) THEN NaN ELSE ToNumeric(c))]
        ELSE [dtype |-> "object",
              vals |-> Map(cells, LAMBDA c : IF isNA(c) THEN NaN ELSE Str(c))]

(* the columns clean_data reads *)
RequiredColumns == {"title", "price", "rating", "review_count"}

(* the frame of a file with the given header: one column per header name *)
read_csv(rows, header) ==
    [c \in header |-> InferColumn(Map(rows, LAMBDA r : r[c]))]

-----------------------------------------------------------------------------
(* Field Normalizer: AmazonAnalyzer.clean_data *)

UnknownProduct ==
    <<"U", "n", "k", "n", "o", "w", "n", " ", "P", "r", "o", "d", "u", "c", "t">>

(* df.replace('N/A', np.nan) on one column *)
ReplaceNA(col) ==
    [col EXCEPT !.vals =
        Map(col.vals, LAMBDA x : IF IsStr(x) /\ x.s = NA_N_A THEN NaN ELSE x)]

(* Series.fillna(s) with a string: a float64 column that had a missing *)
(* cell becomes an object column holding floats and strings           *)
FillNaStr(col, s) ==
    [dtype |-> IF \E i \in 1..Len(col.vals) : IsNaN(col.vals[i])
               THEN "object" ELSE col.dtype,
     vals  |-> Map(col.vals, LAMBDA x : IF IsNaN(x) THEN Str(s) ELSE x)]

(* Series.str raises AttributeError unless the column is an object column *)
StrAccessorRaises(col) == col.dtype # "object"

(* Series.str.<method>: applied to the strings, NaN for every other cell *)
StrMap(col, F(_)) == Map(col.vals, LAMBDA x : IF IsStr(x) THEN F(x.s) ELSE NaN)

(* pd.to_numeric(col, errors='coerce').fillna(0): the numbers of the column *)
ToNumericFillZero(vals) ==
    Map(vals, LAMBDA x :
        LET y == IF IsStr(x) THEN ToNumeric(x.s) ELSE x
        IN  IF IsNaN(y) THEN 0 ELSE y.v)

Zeros(n) == [i \in 1..n |-> 0]

price_clean(col) ==
    ToNumericFillZero(StrMap(col, LAMBDA s : Str(RemoveChars(s, {"$", ","}))))

rating_clean(col) ==
    IF StrAccessorRaises(col) THEN Zeros(Len(col.vals))
    ELSE ToNumericFillZero(StrMap(col, ExtractFloat))

review_count_clean(filled) ==
    IF StrAccessorRaises(filled) THEN Zeros(Len(filled.vals))
    ELSE Map(ToNumericFillZero(
                 StrMap(filled, LAMBDA s : Str(Strip(RemoveChars(s, {","}))))),
             AsInt)

(* The frame clean_data returns.  Nothing catches the exceptions of the   *)
(* title and price statements: df['title'] and df['price'] raise KeyError *)
(* when the file has no such column, and the price column raises          *)
(* AttributeError when it has no .str accessor.  The rating and           *)
(* review_count statements are inside try/except: a KeyError of           *)
(* df['rating'] or df['review_count'] is caught like any parse failure    *)
(* and the normalized column is zero.                                     *)
clean_data(d) ==
    LET has(c) == c \in DOMAIN d
        n      == Len(d[CHOOSE c \in DOMAIN d : TRUE].vals)
        r(c)   == ReplaceNA(d[c])
        filled == FillNaStr(r("review_count"), <<"0">>)
    IN  IF ~ has("title") \/ ~ has("price")
        THEN [raised |-> TRUE, error |-> "KeyError", df |-> d]
        ELSE IF StrAccessorRaises(r("price"))
        THEN [raised |-> TRUE, error |-> "AttributeError", df |-> d]
        ELSE [raised |-> FALSE, error |-> "none",
              df |-> [c \in DOMAIN d \cup {"price_clean", "rating_clean",
                                           "review_count_clean"} |->
                        CASE c = "title"        -> FillNaStr(r(c), UnknownProduct)
                          [] c = "price"        -> r(c)
                          [] c = "rating"       -> r(c)
                          [] c = "review_count" -> filled
                          [] c = "price_clean"  -> price_clean(r("price"))
                          [] c = "rating_clean" ->
                                IF has("rating") THEN rating_clean(r("rating"))
                                ELSE Zeros(n)
                          [] c = "review_count_clean" ->
                                IF has("review_count") THEN review_count_clean(filled)
                                ELSE Zeros(n)]]

-----------------------------------------------------------------------------
(* Statistics Engine: AmazonAnalyzer.perform_analysis and its helpers *)

Frac(num, den) == [k |-> "frac", num |-> num, den |-> den]

Min(xs) == CHOOSE v \in {xs[i] : i \in 1..Len(xs)} : \A j \in 1..Len(xs) : v <= xs[j]

Max(xs) == CHOOSE v \in {xs[i] : i \in 1..Len(xs)} : \A j \in 1..Len(xs) : v >= xs[j]

Mean(xs) == Frac(SumSeq(xs), Len(xs))

Median(xs) ==
    LET sorted == SortSeq(xs, LAMBDA a, b : a < b)
        n == Len(xs)
    IN  IF n % 2 = 1 THEN Frac(sorted[(n + 1) \div 2], 1)
        ELSE Frac(sorted[n \div 2] + sorted[n \div 2 + 1], 2)

(* a column whose values are all equal has zero variance *)
Constant(xs) == \A i, j \in 1..Len(xs) : xs[i] = xs[j]

(* Series.std(): the sample standard deviation (ddof = 1) of xs, NaN for a *)
(* single record (0 / 0); the finite value is kept as the column it is of  *)
Std(xs) ==
    IF Len(xs) < 2 THEN NaN ELSE [k |-> "std", of |-> xs]

(* DataFrame.corr(): Pearson's r of xs and ys, NaN when a variance is zero *)
(* or there is a single record (0 / 0); the finite value is kept as the    *)
(* pair of columns it is of                                                *)
Corr(xs, ys) ==
    IF Len(xs) < 2 \/ Constant(xs) \/ Constant(ys) THEN NaN
    ELSE [k |-> "corr", x |-> xs, y |-> ys]

(* pd.cut(xs, bins=edges + [inf], labels=...).value_counts().sort_index(): *)
(* bin i is the interval (edges[i], edges[i+1]], the last one (edge, inf)  *)
Cut(xs, edges) ==
    [i \in 1..Len(edges) |->
        Count(xs, LAMBDA v : /\ v > edges[i]
                             /\ (i < Len(edges) => v <= edges[i + 1]))]

PriceEdges == <<0, 2500, 5000, 10000, 20000, 50000, 100000>>

PriceLabels == <<"<$25", "$25-$50", "$50-$100", "$100-$200", "$200-$500",
                 "$500-$1000", ">$1000">>

(* get_price_ranges without the test for a largest price of 0 *)
get_price_ranges_unguarded(d) ==
    IF Len(d.price_clean) = 0
    THEN [ranges |-> <<"<$25">>, counts |-> <<0>>]
    ELSE [ranges |-> PriceLabels, counts |-> Cut(d.price_clean, PriceEdges)]

get_price_ranges(d) ==
    IF Len(d.price_clean) = 0 \/ Max(d.price_clean) = 0
    THEN [ranges |-> <<"<$25">>, counts |-> <<0>>]
    ELSE [ranges |-> PriceLabels, counts |-> Cut(d.price_clean, PriceEdges)]

(* round() taking a tie up instead of to the even integer *)
PyRoundHalfUp(h) == (h + 50) \div 100

(* Python's round() of a float held in hundredths: to the nearest integer, *)
(* a tie to the even one                                                   *)
PyRound(h) ==
    LET q == h \div 100
        r == h % 100
    IN  IF r < 50 THEN q
        ELSE IF r > 50 THEN q + 1
        ELSE IF q % 2 = 0 THEN q ELSE q + 1

(* round(x * 2) / 2, in hundredths *)
RoundHalf(x) == PyRound(x * 2) * 50

RECURSIVE Ascending(_)
Ascending(S) ==
    IF S = {} THEN <<>>
    ELSE LET m == CHOOSE v \in S : \A w \in S : v <= w
         IN  <<m>> \o Ascending(S \ {m})

(* value_counts().sort_index(): the distinct values ascending, with counts *)
ValueCounts(xs) ==
    LET index == Ascending({xs[i] : i \in 1..Len(xs)})
    IN  [index  |-> index,
         counts |-> Map(index, LAMBDA v : Count(xs, LAMBDA x : x = v))]

get_rating_distribution(d) ==
    IF Len(d.rating_clean) = 0 \/ Max(d.rating_clean) = 0
    THEN [ratings |-> <<0>>, counts |-> <<0>>]
    ELSE LET vc == ValueCounts(Map(d.rating_clean, RoundHalf))
         IN  [ratings |-> vc.index, counts |-> vc.counts]

ReviewEdges == <<0, 10, 100, 1000, 10000>>

ReviewLabels == <<"0-10", "11-100", "101-1000", "1001-10000", ">10000">>

get_review_distribution(d) ==
    IF Len(d.review_count_clean) = 0 \/ Max(d.review_count_clean) = 0
    THEN [ranges |-> <<"0-10">>, counts |-> <<0>>]
    ELSE [ranges |-> ReviewLabels, counts |-> Cut(d.review_count_clean, ReviewEdges)]

EmptyBlock == [x \in {} |-> 0]

(* Text Analyzer: AmazonAnalyzer.analyze_titles *)

LowerCase == <<"a", "b", "c", "d", "e", "f", "g", "h", "i", "j", "k", "l", "m",
               "n", "o", "p", "q", "r", "s", "t", "u", "v", "w", "x", "y", "z">>

UpperCase == <<"A", "B", "C", "D", "E", "F", "G", "H", "I", "J", "K", "L", "M",
               "N", "O", "P", "Q", "R", "S", "T", "U", "V", "W", "X", "Y", "Z">>

Letters == {LowerCase[i] : i \in 1..26} \cup {UpperCase[i] : i \in 1..26}

(* the characters the pattern \w matches; \b lies between \w and any other *)
WordChars == Letters \cup Digits \cup {"_"}

(* str.lower() *)
Lower(s) ==
    [i \in 1..Len(s) |->
        IF \E j \in 1..26 : UpperCase[j] = s[i]
        THEN LowerCase[CHOOSE j \in 1..26 : UpperCase[j] = s[i]]
        ELSE s[i]]

(* ' '.join(titles) *)
RECURSIVE Join(_)
Join(titles) ==
    IF titles = <<>> THEN <<>>
    ELSE IF Len(titles) = 1 THEN titles[1]
    ELSE titles[1] \o <<" ">> \o Join(Tail(titles))

(* the end of the run of word characters of s that starts at i *)
RECURSIVE WordRunEnd(_, _)
WordRunEnd(s, i) ==
    IF i <= Len(s) /\ s[i] \in WordChars THEN WordRunEnd(s, i + 1) ELSE i - 1

MinWordLen == 3

MaxWordLen == 15

(* the pattern without its word boundaries, [a-zA-Z]{3,15}: up to 15 *)
(* letters of every run of letters, again and again                  *)
RECURSIVE FindWordsUnanchored(_, _)
FindWordsUnanchored(s, i) ==
    IF i > Len(s) THEN <<>>
    ELSE IF s[i] \notin Letters THEN FindWordsUnanchored(s, i + 1)
    ELSE LET e == CHOOSE j \in i..Len(s) :
                      /\ \A k \in i..j : s[k] \in Letters
                      /\ j = Len(s) \/ s[j + 1] \notin Letters
             n == IF e - i + 1 > MaxWordLen THEN MaxWordLen ELSE e - i + 1
         IN  (IF n >= MinWordLen THEN <<SubSeq(s, i, i + n - 1)>> ELSE <<>>)
                 \o FindWordsUnanchored(s, i + n)

(* re.compile(r'\b[a-zA-Z]{3,15}\b').findall(s) from position i on: the *)
(* runs of word characters that are 3 to 15 letters and nothing else    *)
RECURSIVE FindWords(_, _)
FindWords(s, i) ==
    IF i > Len(s) THEN <<>>
    ELSE IF s[i] \notin WordChars THEN FindWords(s, i + 1)
    ELSE LET e == WordRunEnd(s, i)
             w == SubSeq(s, i, e)
         IN  (IF /\ \A j \in 1..Len(w) : w[j] \in Letters
                 /\ Len(w) >= MinWordLen
                 /\ Len(w) <= MaxWordLen
              THEN <<w>> ELSE <<>>) \o FindWords(s, e + 1)

stop_words ==
    {<<"w", "i", "t", "h">>, <<"f", "o", "r">>, <<"a", "n", "d">>,
     <<"t", "h", "e">>, <<"t", "h", "i", "s">>, <<"t", "h", "a", "t">>,
     <<"n", "e", "w">>, <<"f", "r", "o", "m">>, <<"a", "r", "e">>}

no_data == <<"n", "o", "_", "d", "a", "t", "a">>

TopWords == 20

(* the sort putting equal counts in the reverse of the order of first *)
(* occurrence (an ascending stable sort, then reversed)               *)
top_words_ties_reversed(words) ==
    LET kept  == SelectSeq(words, LAMBDA w : w \notin stop_words)
        first(w) == CHOOSE i \in 1..Len(kept) : kept[i] = w /\ \A j \in 1..(i - 1) : kept[j] # w
        firsts == {i \in 1..Len(kept) : first(kept[i]) = i}
        entries == IF kept = <<>>
                   THEN {[word |-> no_data, count |-> 1, at |-> 1]}
                   ELSE {[word  |-> kept[i],
                          count |-> Cardinality({j \in 1..Len(kept) : kept[j] = kept[i]}),
                          at    |-> i] : i \in firsts}
        before(a, b) == a.count > b.count \/ (a.count = b.count /\ a.at > b.at)
        rank(e) == 1 + Cardinality({o \in entries : before(o, e)})
        sorted == [r \in 1..Cardinality(entries) |->
                      LET e == CHOOSE x \in entries : rank(x) = r
                      IN  [word |-> e.word, count |-> e.count]]
    IN  SubSeq(sorted, 1, IF Len(sorted) < TopWords THEN Len(sorted) ELSE TopWords)

(* word_counts in insertion order, then sorted by count, largest first; the *)
(* sort is stable, so equal counts stay in the order of first occurrence    *)
top_words(words) ==
    LET kept  == SelectSeq(words, LAMBDA w : w \notin stop_words)
        first(w) == CHOOSE i \in 1..Len(kept) : kept[i] = w /\ \A j \in 1..(i - 1) : kept[j] # w
        firsts == {i \in 1..Len(kept) : first(kept[i]) = i}
        entries == IF kept = <<>>
                   THEN {[word |-> no_data, count |-> 1, at |-> 1]}
                   ELSE {[word  |-> kept[i],
                          count |-> Cardinality({j \in 1..Len(kept) : kept[j] = kept[i]}),
                          at    |-> i] : i \in firsts}
        before(a, b) == a.count > b.count \/ (a.count = b.count /\ a.at < b.at)
        rank(e) == 1 + Cardinality({o \in entries : before(o, e)})
        sorted == [r \in 1..Cardinality(entries) |->
                      LET e == CHOOSE x \in entries : rank(x) = r
                      IN  [word |-> e.word, count |-> e.count]]
    IN  SubSeq(sorted, 1, IF Len(sorted) < TopWords THEN Len(sorted) ELSE TopWords)

(* the polarity (in hundredths) TextBlob's lexicon gives the words of the *)
(* titles of the datasets; a word without an entry is not assessed        *)
Lexicon(w) ==
    IF w = <<"g", "r", "e", "a", "t">> THEN 80
    ELSE IF w = <<"t", "e", "r", "r", "i", "b", "l", "e">> THEN -100
    ELSE 0

Assessed(w) ==
    w \in {<<"g", "r", "e", "a", "t">>, <<"t", "e", "r", "r", "i", "b", "l", "e">>}

(* TextBlob(title).sentiment.polarity: the mean over the assessed words, *)
(* 0 when there is none; in hundredths, rounded toward zero              *)
Polarity(title) ==
    LET ws == SelectSeq(FindWords(Lower(title), 1), Assessed)
    IN  IF ws = <<>> THEN 0
        ELSE SumSeq([i \in 1..Len(ws) |-> Lexicon(ws[i])]) \div Len(ws)

(* the titles without the filter on the placeholder *)
valid_titles_unfiltered(d) == d.title.vals

(* df[df['title'] != 'Unknown Product']['title'] *)
valid_titles(d) ==
    SelectSeq(d.title.vals, LAMBDA x : x # Str(UnknownProduct))

(* ' '.join(valid_titles) raises TypeError on an item that is not a string: *)
(* the titles of a numeric title column                                     *)
JoinRaises(titles) == \E i \in 1..Len(titles) : ~ IsStr(titles[i])

(* the counts with a neutral test that lacks its lower limit *)
sentiment_counts_open_neutral(sentiments) ==
    [positive |-> Cardinality({i \in 1..Len(sentiments) : sentiments[i] > 20}),
     neutral  |-> Cardinality({i \in 1..Len(sentiments) : sentiments[i] <= 20}),
     negative |-> Cardinality({i \in 1..Len(sentiments) : sentiments[i] < -20})]

(* the three counts of the sentiments, 0.2 being 20 hundredths *)
sentiment_counts(sentiments) ==
    [positive |-> Cardinality({i \in 1..Len(sentiments) : sentiments[i] > 20}),
     neutral  |-> Cardinality({i \in 1..Len(sentiments) :
                                  sentiments[i] >= -20 /\ sentiments[i] <= 20}),
     negative |-> Cardinality({i \in 1..Len(sentiments) : sentiments[i] < -20})]

analyze_titles(d) ==
    IF valid_titles(d) = <<>>
    THEN [top_words         |-> <<[word |-> no_data, count |-> 1]>>,
          average_sentiment |-> Num(0),
          positive_titles   |-> 0,
          neutral_titles    |-> 0,
          negative_titles   |-> 0]
    ELSE LET titles == [i \in 1..Len(valid_titles(d)) |-> valid_titles(d)[i].s]
             sentiments == [i \in 1..Len(titles) |-> Polarity(titles[i])]
             counts == sentiment_counts(sentiments)
         IN  [top_words         |-> top_words(FindWords(Lower(Join(titles)), 1)),
              average_sentiment |-> Frac(SumSeq(sentiments), Len(sentiments)),
              positive_titles   |-> counts.positive,
              neutral_titles    |-> counts.neutral,
              negative_titles   |-> counts.negative]

(* the summary of a dataset without records, lacking the error marker *)
empty_summary_unmarked ==
    [total_products |-> 0,
     average_price  |-> Num(0),
     average_rating |-> Num(0),
     total_reviews  |-> 0]

(* the summary of a dataset without records *)
empty_summary ==
    [total_products |-> 0,
     average_price  |-> Num(0),
     average_rating |-> Num(0),
     total_reviews  |-> 0,
     error |-> "No valid products found after data cleaning"]

(* perform_analysis has no try/except of its own: an exception of *)
(* analyze_titles leaves it                                       *)
perform_analysis_raises(d) ==
    Len(d.price_clean) > 0 /\ JoinRaises(valid_titles(d))


(* the early return giving the summary alone *)
empty_results_summary_only ==
    [timestamp |-> "now", summary |-> empty_summary]

(* the document of a dataset without records: the initial document of *)
(* seven keys with its summary filled in                              *)
empty_results ==
    [timestamp       |-> "now",
     summary         |-> empty_summary,
     price_analysis  |-> EmptyBlock,
     rating_analysis |-> EmptyBlock,
     review_analysis |-> EmptyBlock,
     title_analysis  |-> EmptyBlock,
     correlations    |-> EmptyBlock]

perform_analysis(d) ==
    IF Len(d.price_clean) = 0
    THEN empty_results
    ELSE [timestamp       |-> "now",
          summary         |-> [total_products |-> Len(d.price_clean),
                               average_price  |-> Mean(d.price_clean),
                               average_rating |-> Mean(d.rating_clean),
                               total_reviews  |-> SumSeq(d.review_count_clean)],
          price_analysis  |-> [min          |-> Num(Min(d.price_clean)),
                               max          |-> Num(Max(d.price_clean)),
                               mean         |-> Mean(d.price_clean),
                               median       |-> Median(d.price_clean),
                               std_dev      |-> Std(d.price_clean),
                               price_ranges |-> get_price_ranges(d)],
          rating_analysis |-> [min          |-> Num(Min(d.rating_clean)),
                               max          |-> Num(Max(d.rating_clean)),
                               mean         |-> Mean(d.rating_clean),
                               median       |-> Median(d.rating_clean),
                               std_dev      |-> Std(d.rating_clean),
                               distribution |-> get_rating_distribution(d)],
          review_analysis |-> [min          |-> Num(Min(d.review_count_clean)),
                               max          |-> Num(Max(d.review_count_clean)),
                               mean         |-> Mean(d.review_count_clean),
                               median       |-> Median(d.review_count_clean),
                               std_dev      |-> Std(d.review_count_clean),
                               total        |-> SumSeq(d.review_count_clean),
                               distribution |-> get_review_distribution(d)],
          title_analysis  |-> analyze_titles(d),
          correlations    |-> [price_vs_rating   |-> Corr(d.price_clean, d.rating_clean),
                               price_vs_reviews  |-> Corr(d.price_clean, d.review_count_clean),
                               rating_vs_reviews |-> Corr(d.rating_clean, d.review_count_clean)]]

-----------------------------------------------------------------------------
(* Dashboard: create_correlation_chart *)

(* the matrix without the conversion of NaN to 0 *)
create_correlation_chart_nan_kept(doc) ==
    IF "correlations" \notin DOMAIN doc
    THEN <<<<Num(1), Num(0), Num(0)>>,
           <<Num(0), Num(1), Num(0)>>,
           <<Num(0), Num(0), Num(1)>>>>
    ELSE LET get(key) == IF key \in DOMAIN doc.correlations
                         THEN doc.correlations[key] ELSE Num(0)
         IN  <<<<Num(1), get("price_vs_rating"), get("price_vs_reviews")>>,
               <<get("price_vs_rating"), Num(1), get("rating_vs_reviews")>>,
               <<get("price_vs_reviews"), get("rating_vs_reviews"), Num(1)>>>>

create_correlation_chart(doc) ==
    IF "correlations" \notin DOMAIN doc
    THEN <<<<Num(1), Num(0), Num(0)>>,
           <<Num(0), Num(1), Num(0)>>,
           <<Num(0), Num(0), Num(1)>>>>
    ELSE LET get(key) == IF key \in DOMAIN doc.correlations
                         THEN doc.correlations[key] ELSE Num(0)
             zero(x)  == IF IsNaN(x) THEN Num(0) ELSE x
             price_vs_rating   == zero(get("price_vs_rating"))
             price_vs_reviews  == zero(get("price_vs_reviews"))
             rating_vs_reviews == zero(get("rating_vs_reviews"))
         IN  <<<<Num(1), price_vs_rating, price_vs_reviews>>,
               <<price_vs_rating, Num(1), rating_vs_reviews>>,
               <<price_vs_reviews, rating_vs_reviews, Num(1)>>>>

-----------------------------------------------------------------------------
(* Input datasets *)

Row(title, price, rating, review_count) ==
    [title |-> title, price |-> price, rating |-> rating,
     review_count |-> review_count]

(* "Widget A" | "$19.99" | "4.5 out of 5 stars" | "100" *)
Row1 ==
    Row(<<"W", "i", "d", "g", "e", "t", " ", "A">>,
        <<"$", "1", "9", ".", "9", "9">>,
        <<"4", ".", "5", " ", "o", "u", "t", " ", "o", "f", " ", "5", " ", "s", "t", "a", "r", "s">>,
        <<"1", "0", "0">>)

(* "Widget B" | "N/A" | "N/A" | "N/A" *)
Row2 ==
    Row(<<"W", "i", "d", "g", "e", "t", " ", "B">>,
        <<"N", "/", "A">>,
        <<"N", "/", "A">>,
        <<"N", "/", "A">>)

(* "Great Widget C" | "$5.00" | "3.0 out of 5 stars" | "2,000" *)
Row3 ==
    Row(<<"G", "r", "e", "a", "t", " ", "W", "i", "d", "g", "e", "t", " ", "C">>,
        <<"$", "5", ".", "0", "0">>,
        <<"3", ".", "0", " ", "o", "u", "t", " ", "o", "f", " ", "5", " ", "s", "t", "a", "r", "s">>,
        <<"2", ",", "0", "0", "0">>)

(* "N/A" | "$25.00" | "4.25 out of 5 stars" | "12,345" *)
Row4 ==
    Row(<<"N", "/", "A">>,
        <<"$", "2", "5", ".", "0", "0">>,
        <<"4", ".", "2", "5", " ", "o", "u", "t", " ", "o", "f", " ", "5", " ", "s", "t", "a", "r", "s">>,
        <<"1", "2", ",", "3", "4", "5">>)

(* "Widget A" | "-$5.00" | "7.5 out of 10" | "-3" *)
Row5 ==
    Row(<<"W", "i", "d", "g", "e", "t", " ", "A">>,
        <<"-", "$", "5", ".", "0", "0">>,
        <<"7", ".", "5", " ", "o", "u", "t", " ", "o", "f", " ", "1", "0">>,
        <<"-", "3">>)

(* "Widget B" | "5.00" | "4 out of 5 stars" | "0" *)
Row6 ==
    Row(<<"W", "i", "d", "g", "e", "t", " ", "B">>,
        <<"5", ".", "0", "0">>,
        <<"4", " ", "o", "u", "t", " ", "o", "f", " ", "5", " ", "s", "t", "a", "r", "s">>,
        <<"0">>)

(* "N/A" | "$1,234.50" | "4.75 out of 5 stars" | " 1,000 " *)
Row7 ==
    Row(<<"N", "/", "A">>,
        <<"$", "1", ",", "2", "3", "4", ".", "5", "0">>,
        <<"4", ".", "7", "5", " ", "o", "u", "t", " ", "o", "f", " ", "5", " ", "s", "t", "a", "r", "s">>,
        <<" ", "1", ",", "0", "0", "0", " ">>)

(* "Widget A" | "$50.00" | "4.3 out of 5 stars" | "10" *)
Row8 ==
    Row(<<"W", "i", "d", "g", "e", "t", " ", "A">>,
        <<"$", "5", "0", ".", "0", "0">>,
        <<"4", ".", "3", " ", "o", "u", "t", " ", "o", "f", " ", "5", " ", "s", "t", "a", "r", "s">>,
        <<"1", "0">>)

(* "Widget B" | "$100.00" | "4.24 out of 5 stars" | "10,000" *)
Row9 ==
    Row(<<"W", "i", "d", "g", "e", "t", " ", "B">>,
        <<"$", "1", "0", "0", ".", "0", "0">>,
        <<"4", ".", "2", "4", " ", "o", "u", "t", " ", "o", "f", " ", "5", " ", "s", "t", "a", "r", "s">>,
        <<"1", "0", ",", "0", "0", "0">>)

(* "Great Widget C" | "$200.00" | "4.26 out of 5 stars" | "10,001" *)
Row10 ==
    Row(<<"G", "r", "e", "a", "t", " ", "W", "i", "d", "g", "e", "t", " ", "C">>,
        <<"$", "2", "0", "0", ".", "0", "0">>,
        <<"4", ".", "2", "6", " ", "o", "u", "t", " ", "o", "f", " ", "5", " ", "s", "t", "a", "r", "s">>,
        <<"1", "0", ",", "0", "0", "1">>)

(* "Widget A" | "$500.00" | "" | "1,000" *)
Row11 ==
    Row(<<"W", "i", "d", "g", "e", "t", " ", "A">>,
        <<"$", "5", "0", "0", ".", "0", "0">>,
        <<>>,
        <<"1", ",", "0", "0", "0">>)

(* "Widget B" | "$1,000.00" | "New" | "none" *)
Row12 ==
    Row(<<"W", "i", "d", "g", "e", "t", " ", "B">>,
        <<"$", "1", ",", "0", "0", "0", ".", "0", "0">>,
        <<"N", "e", "w">>,
        <<"n", "o", "n", "e">>)

(* "Great Widget C" | "Free" | "4.5 out of 5 stars" | "7" *)
Row13 ==
    Row(<<"G", "r", "e", "a", "t", " ", "W", "i", "d", "g", "e", "t", " ", "C">>,
        <<"F", "r", "e", "e">>,
        <<"4", ".", "5", " ", "o", "u", "t", " ", "o", "f", " ", "5", " ", "s", "t", "a", "r", "s">>,
        <<"7">>)

(* a title that is a number: "2024" | "$19.99" | "4.5 out of 5 stars" | "100" *)
Row14 ==
    Row(<<"2", "0", "2", "4">>,
        <<"$", "1", "9", ".", "9", "9">>,
        <<"4", ".", "5", " ", "o", "u", "t", " ", "o", "f", " ", "5", " ",
          "s", "t", "a", "r", "s">>,
        <<"1", "0", "0">>)

(* a title of 22 distinct countable words, one of them twice, with stop  *)
(* words, a word with a digit (USB3) and a word of 18 letters:           *)
(* "USB3 Multifunctionality Wireless Bluetooth Headphones with           *)
(* Microphone for Travel and Office Stereo Headset Memory Foam Earmuffs  *)
(* Bass Cable Case Adapter Charger Battery Remote Control Speaker Stand  *)
(* Strap Wireless" | "$50.00" | "4.3 out of 5 stars" | "10"              *)
Row15 ==
    Row(<<"U", "S", "B", "3", " ", "M", "u", "l", "t", "i", "f", "u", "n",
          "c", "t", "i", "o", "n", "a", "l", "i", "t", "y", " ", "W", "i",
          "r", "e", "l", "e", "s", "s", " ", "B", "l", "u", "e", "t", "o",
          "o", "t", "h", " ", "H", "e", "a", "d", "p", "h", "o", "n", "e",
          "s", " ", "w", "i", "t", "h", " ", "M", "i", "c", "r", "o", "p",
          "h", "o", "n", "e", " ", "f", "o", "r", " ", "T", "r", "a", "v",
          "e", "l", " ", "a", "n", "d", " ", "O", "f", "f", "i", "c", "e",
          " ", "S", "t", "e", "r", "e", "o", " ", "H", "e", "a", "d", "s",
          "e", "t", " ", "M", "e", "m", "o", "r", "y", " ", "F", "o", "a",
          "m", " ", "E", "a", "r", "m", "u", "f", "f", "s", " ", "B", "a",
          "s", "s", " ", "C", "a", "b", "l", "e", " ", "C", "a", "s", "e",
          " ", "A", "d", "a", "p", "t", "e", "r", " ", "C", "h", "a", "r",
          "g", "e", "r", " ", "B", "a", "t", "t", "e", "r", "y", " ", "R",
          "e", "m", "o", "t", "e", " ", "C", "o", "n", "t", "r", "o", "l",
          " ", "S", "p", "e", "a", "k", "e", "r", " ", "S", "t", "a", "n",
          "d", " ", "S", "t", "r", "a", "p", " ", "W", "i", "r", "e", "l",
          "e", "s", "s">>,
        <<"$", "5", "0", ".", "0", "0">>,
        <<"4", ".", "3", " ", "o", "u", "t", " ", "o", "f", " ", "5", " ",
          "s", "t", "a", "r", "s">>,
        <<"1", "0">>)

(* "Terrible Widget D" | "$5.00" | "3.0 out of 5 stars" | "7" *)
Row16 ==
    Row(<<"T", "e", "r", "r", "i", "b", "l", "e", " ", "W", "i", "d", "g",
          "e", "t", " ", "D">>,
        <<"$", "5", ".", "0", "0">>,
        <<"3", ".", "0", " ", "o", "u", "t", " ", "o", "f", " ", "5", " ",
          "s", "t", "a", "r", "s">>,
        <<"7">>)

(* "Unknown Product" | "$25.00" | "4.5 out of 5 stars" | "100" *)
Row17 ==
    Row(<<"U", "n", "k", "n", "o", "w", "n", " ", "P", "r", "o", "d", "u",
          "c", "t">>,
        <<"$", "2", "5", ".", "0", "0">>,
        <<"4", ".", "5", " ", "o", "u", "t", " ", "o", "f", " ", "5", " ",
          "s", "t", "a", "r", "s">>,
        <<"1", "0", "0">>)

(* a title of stop words and short words only:                     *)
(* "The TV for PC" | "$200.00" | "4.26 out of 5 stars" | "10,001" *)
Row18 ==
    Row(<<"T", "h", "e", " ", "T", "V", " ", "f", "o", "r", " ", "P", "C">>,
        <<"$", "2", "0", "0", ".", "0", "0">>,
        <<"4", ".", "2", "6", " ", "o", "u", "t", " ", "o", "f", " ", "5", " ", "s", "t", "a", "r", "s">>,
        <<"1", "0", ",", "0", "0", "1">>)

(* a rating written as a plain number:     *)
(* "Widget A" | "$19.99" | "4.5" | "2,000" *)
Row19 ==
    Row(<<"W", "i", "d", "g", "e", "t", " ", "A">>,
        <<"$", "1", "9", ".", "9", "9">>,
        <<"4", ".", "5">>,
        <<"2", ",", "0", "0", "0">>)

RawRows == {Row1, Row2, Row3, Row4, Row5, Row6,
            Row7, Row8, Row9, Row10, Row11, Row12,
            Row13, Row19}

(* the records of the datasets that exercise the title analysis *)
TitleRows == {Row1, Row3, Row4, Row14, Row15, Row16, Row17, Row18}

MaxRows == 2

(* the three-row scenario of the documentation *)
Scenario == <<Row1, Row2, Row3>>

Datasets ==
    UNION {[1..n -> RawRows] : n \in 0..MaxRows} \cup {Scenario}

TitleDatasets == UNION {[1..n -> TitleRows] : n \in 0..MaxRows}

(* the headers of the files that lack one required column *)
IncompleteHeaders == {RequiredColumns \ {c} : c \in RequiredColumns}

(* the records of the files that lack a column (the cell under the missing *)
(* name is not in the file and is never read)                              *)
IncompleteDatasets == UNION {[1..n -> {Row1, Row2, Row3}] : n \in 0..MaxRows}

-----------------------------------------------------------------------------
(* AmazonAnalyzer.analyze_file, step by step; progress is in tenths *)

Report(p) == IF progress_callback THEN Append(progress, p) ELSE progress

NoFrame == [title |-> <<>>]

NoDocument == [timestamp |-> "none"]

NoChart == <<>>

(* the input file: one that cannot be read (missing, unreadable, empty), *)
(* one with the four columns, or one that lacks a required column        *)
Init ==
    /\ OtherIdle
    /\ \/ readable = TRUE /\ columns = RequiredColumns /\ csv \in Datasets
       \/ readable = TRUE /\ columns \in IncompleteHeaders /\ csv \in IncompleteDatasets
       \/ readable = FALSE /\ columns = RequiredColumns /\ csv = <<>>
    /\ output_file \in BOOLEAN
    /\ progress_callback \in BOOLEAN
    /\ pc = "start"
    /\ df = NoFrame
    /\ results = NoDocument
    /\ artifact = NoDocument
    /\ progress = <<>>
    /\ error = "none"
    /\ chart = NoChart

(* progress 0.1, pd.read_csv, progress 0.2; an exception of read_csv is *)
(* raised again as "Error reading input file: ..."                      *)
ReadInput ==
    /\ UNCHANGED otherVars
    /\ pc = "start"
    /\ IF readable
       THEN /\ df' = read_csv(csv, columns)
            /\ progress' = IF progress_callback THEN progress \o <<1, 2>> ELSE progress
            /\ pc' = "clean"
            /\ UNCHANGED error
       ELSE /\ pc' = "raised"
            /\ error' = "Error reading input file"
            /\ progress' = Report(1)
            /\ UNCHANGED df
    /\ UNCHANGED <<readable, columns, csv, output_file, progress_callback,
                   results, artifact, chart>>

(* df = self.clean_data(df), progress 0.4; an exception of clean_data *)
(* leaves analyze_file                                                *)
CleanData ==
    /\ UNCHANGED otherVars
    /\ pc = "clean"
    /\ LET r == clean_data(df)
       IN  IF r.raised
           THEN /\ pc' = "raised"
                /\ error' = r.error
                /\ UNCHANGED <<df, progress>>
           ELSE /\ pc' = "analyze"
                /\ df' = r.df
                /\ progress' = Report(4)
                /\ UNCHANGED error
    /\ UNCHANGED <<readable, columns, csv, output_file, progress_callback,
                   results, artifact, chart>>

(* analysis_results = self.perform_analysis(df), progress 0.8; an exception *)
(* of perform_analysis leaves analyze_file                                  *)
PerformAnalysis ==
    /\ UNCHANGED otherVars
    /\ pc = "analyze"
    /\ IF perform_analysis_raises(df)
       THEN /\ pc' = "raised"
            /\ error' = "TypeError"
            /\ UNCHANGED <<results, progress>>
       ELSE /\ results' = perform_analysis(df)
            /\ progress' = Report(8)
            /\ pc' = "save"
            /\ UNCHANGED error
    /\ UNCHANGED <<readable, columns, csv, output_file, progress_callback, df,
                   artifact, chart>>

(* the final progress reported where the output file should be written *)
SaveResultsReportedFirst ==
    /\ UNCHANGED otherVars
    /\ pc = "save"
    /\ progress' = Report(10)
    /\ pc' = "return"
    /\ UNCHANGED <<readable, columns, csv, output_file, progress_callback, df,
                   results, artifact, error, chart>>

(* json.dump to the output file when one is given *)
SaveResults ==
    /\ UNCHANGED otherVars
    /\ pc = "save"
    /\ artifact' = IF output_file THEN results ELSE artifact
    /\ pc' = "return"
    /\ UNCHANGED <<readable, columns, csv, output_file, progress_callback, df,
                   results, progress, error, chart>>

(* progress 1.0, return analysis_results *)
Return ==
    /\ UNCHANGED otherVars
    /\ pc = "return"
    /\ progress' = Report(10)
    /\ pc' = "done"
    /\ UNCHANGED <<readable, columns, csv, output_file, progress_callback, df,
                   results, artifact, error, chart>>

(* the dashboard loads the written document and builds the heatmap matrix *)
CreateCorrelationChart ==
    /\ UNCHANGED otherVars
    /\ pc = "done"
    /\ output_file
    /\ chart = NoChart
    /\ chart' = create_correlation_chart(artifact)
    /\ UNCHANGED <<pc, readable, columns, csv, output_file, progress_callback,
                   df, results, artifact, progress, error>>

Next ==
    \/ ReadInput
    \/ CleanData
    \/ PerformAnalysis
    \/ SaveResults
    \/ Return
    \/ CreateCorrelationChart

Spec == Init /\ [][Next]_vars

(* no analyze_file call is made *)
AnalyzerIdle ==
    /\ pc = "done"
    /\ output_file = FALSE
    /\ progress_callback = FALSE
    /\ readable = TRUE
    /\ columns = RequiredColumns
    /\ csv = <<>>
    /\ df = NoFrame
    /\ results = NoDocument
    /\ artifact = NoDocument
    /\ progress = <<>>
    /\ error = "none"
    /\ chart = NoChart

(* the values a correlation of a document can have: undefined, zero, a *)
(* number or a defined coefficient                                   *)
CorrelationValues ==
    {NaN, Num(0), Num(50), [k |-> "corr", x |-> <<1, 2>>, y |-> <<2, 1>>]}

(* the documents the dashboard can be given: without a 'correlations' *)
(* key, or with any of the three correlations missing or present      *)
ChartDocuments ==
    {[timestamp |-> "now"]} \cup
    UNION {{[timestamp |-> "now", correlations |-> f] :
               f \in [keys -> CorrelationValues]} :
           keys \in SUBSET {"price_vs_rating", "price_vs_reviews",
                            "rating_vs_reviews"}}

(* create_correlation_chart on each of these documents *)
InitChart ==
    /\ OtherIdle
    /\ artifact \in ChartDocuments
    /\ results = artifact
    /\ pc = "done"
    /\ output_file = TRUE
    /\ progress_callback = FALSE
    /\ readable = TRUE
    /\ columns = RequiredColumns
    /\ csv = <<>>
    /\ df = NoFrame
    /\ progress = <<>>
    /\ error = "none"
    /\ chart = NoChart

ChartNext == CreateCorrelationChart

ChartSpec == InitChart /\ [][ChartNext]_vars

(* analyze_file on the files that exercise the title analysis *)
InitTitles ==
    /\ OtherIdle
    /\ readable = TRUE
    /\ columns = RequiredColumns
    /\ csv \in TitleDatasets
    /\ output_file \in BOOLEAN
    /\ progress_callback \in BOOLEAN
    /\ pc = "start"
    /\ df = NoFrame
    /\ results = NoDocument
    /\ artifact = NoDocument
    /\ progress = <<>>
    /\ error = "none"
    /\ chart = NoChart

TitleSpec == InitTitles /\ [][Next]_vars

-----------------------------------------------------------------------------
(* Properties *)

Cleaned == pc \in {"analyze", "save", "return", "done"} \/ error = "TypeError"

Analyzed == pc \in {"save", "return", "done"}

(* the exceptions that leave clean_data *)
CleanDataErrors == {"KeyError", "AttributeError"}

Returned == pc \notin {"start", "clean"}

Absent(cell) == cell \in NaValues

(* the raw cell as read_csv and replace('N/A') hold it in an object column *)
RawCell(cell) == IF Absent(cell) THEN NaN ELSE Str(cell)

(* C1: for every input dataset with the required columns, clean_data      *)
(* returns a dataset with exactly as many rows as the input, in the same  *)
(* order (row i of the result is record i of the input): no record is     *)
(* dropped, duplicated or added.                                          *)
C1_NoRowLost ==
    (columns = RequiredColumns /\ readable /\ Returned) =>
        /\ Cleaned
        /\ Len(df.price_clean) = Len(csv)
        /\ Len(df.rating_clean) = Len(csv)
        /\ Len(df.review_count_clean) = Len(csv)
        /\ Len(df.title.vals) = Len(csv)
        /\ \A i \in 1..Len(csv) :
              /\ df.price.vals[i] = RawCell(csv[i].price)
              /\ df.title.vals[i] = IF Absent(csv[i].title)
                                    THEN Str(UnknownProduct) ELSE Str(csv[i].title)

(* a column on which the .str accessor fails: it holds no string at all *)
NoStringValue(cells) ==
    cells # <<>> /\ \A i \in 1..Len(cells) : Absent(cells[i]) \/ ~ IsNaN(ToNumeric(cells[i]))

AllZero(xs) == \A i \in 1..Len(xs) : xs[i] = 0

(* C2: clean_data never raises; when parsing the price, rating or        *)
(* review_count column fails (the column holds no string value), the     *)
(* failure is caught, that normalized column is all zero, and clean_data *)
(* returns normally.                                                     *)
C2_CleanDataNeverRaises ==
    /\ error \notin CleanDataErrors
    /\ Cleaned =>
          /\ NoStringValue(Map(csv, LAMBDA r : r.price)) => AllZero(df.price_clean)
          /\ NoStringValue(Map(csv, LAMBDA r : r.rating)) => AllZero(df.rating_clean)
          /\ NoStringValue(Map(csv, LAMBDA r : r.review_count))
                => AllZero(df.review_count_clean)

(* C3: every normalized record has price_clean >= 0, 0 <= rating_clean <= 5 *)
(* and an integer review_count_clean >= 0, whatever the raw strings were.   *)
C3_NormalizedRanges ==
    Cleaned =>
        \A i \in 1..Len(csv) :
            /\ df.price_clean[i] >= 0
            /\ df.rating_clean[i] >= 0 /\ df.rating_clean[i] <= 500
            /\ df.review_count_clean[i] \in Int /\ df.review_count_clean[i] >= 0

(* the integer a raw review count stands for, taken on its own: absent is *)
(* "0", commas and surrounding blanks are removed, unparseable gives 0    *)
OwnReviewCount(cell) ==
    LET text == IF Absent(cell) THEN <<"0">> ELSE cell
        y == ToNumeric(Strip(RemoveChars(text, {","})))
    IN  IF IsNaN(y) THEN 0 ELSE AsInt(y.v)

(* C4: the normalized review count of every record is the integer of its *)
(* own raw review_count, independently of the other records of the       *)
(* column ("12,345" gives 12345 and "100" gives 100 in every dataset).   *)
C4_ReviewCountPerRecord ==
    Cleaned =>
        \A i \in 1..Len(csv) :
            df.review_count_clean[i] = OwnReviewCount(csv[i].review_count)

(* the number of values of xs in the half-open bin [edges[i], edges[i+1]) *)
HalfOpenCount(xs, edges, i) ==
    Count(xs, LAMBDA v : v >= edges[i] /\ (i < Len(edges) => v < edges[i + 1]))

NonDegeneratePrices == Analyzed /\ Len(csv) > 0 /\ Max(df.price_clean) # 0

(* C5: in a non-degenerate dataset each record with price p is counted in *)
(* exactly the bucket whose half-open interval [lo, hi) contains p, for   *)
(* the bins [0,25), [25,50), [50,100), [100,200), [200,500), [500,1000),  *)
(* [1000,inf): a price of 0 is in '<$25', a price of 25 in '$25-$50'.     *)
C5_PriceBucketsHalfOpen ==
    NonDegeneratePrices =>
        LET pr == results.price_analysis.price_ranges
        IN  /\ pr.ranges = PriceLabels
            /\ \A i \in 1..Len(PriceEdges) :
                  pr.counts[i] = HalfOpenCount(df.price_clean, PriceEdges, i)

(* C6: for a dataset that is not all-zero-price the price distribution    *)
(* counts every record exactly once (the counts sum to total_products,    *)
(* zero prices included); in the three-row scenario the '<$25' count is 3 *)
(* and average_price is (19.99 + 0 + 5.00) / 3.                           *)
C6_PriceCountsSumToTotal ==
    NonDegeneratePrices =>
        /\ SumSeq(results.price_analysis.price_ranges.counts)
              = results.summary.total_products
        /\ csv = Scenario =>
              /\ results.price_analysis.price_ranges.counts[1] = 3
              /\ results.summary.average_price = Frac(1999 + 0 + 500, 3)

NonDegenerateReviews == Analyzed /\ Len(csv) > 0 /\ Max(df.review_count_clean) # 0

(* C7: when the review counts are not all zero, each record with review  *)
(* count n >= 0 is counted in exactly one bucket of [0,10], (10,100],    *)
(* (100,1000], (1000,10000], (10000,inf); n = 0 is counted in '0-10', so *)
(* the counts sum to the number of records.                              *)
C7_ReviewBucketsCoverZero ==
    NonDegenerateReviews =>
        LET dist == results.review_analysis.distribution
            xs == df.review_count_clean
        IN  /\ dist.ranges = ReviewLabels
            /\ dist.counts[1] = Count(xs, LAMBDA n : n >= 0 /\ n <= 10)
            /\ \A i \in 2..Len(ReviewEdges) :
                  dist.counts[i] =
                      Count(xs, LAMBDA n : /\ n > ReviewEdges[i]
                                           /\ (i < Len(ReviewEdges) => n <= ReviewEdges[i + 1]))
            /\ (\A i \in 1..Len(xs) : xs[i] >= 0) => SumSeq(dist.counts) = Len(xs)

CorrelationKeys == {"price_vs_rating", "price_vs_reviews", "rating_vs_reviews"}

NoNaNCorrelation(doc) ==
    \A key \in CorrelationKeys : ~ IsNaN(doc.correlations[key])

(* C8: each of the three correlations of the result document returned by *)
(* perform_analysis and written by analyze_file is a defined number (0   *)
(* when Pearson's r is undefined, never NaN), and the dashboard's matrix *)
(* shows no NaN either.                                                  *)
C8_CorrelationsDefined ==
    /\ (Analyzed /\ Len(csv) > 0) =>
          /\ NoNaNCorrelation(results)
          /\ (pc = "done" /\ output_file) => NoNaNCorrelation(artifact)
          /\ \A key \in CorrelationKeys :
                LET xs == IF key = "rating_vs_reviews" THEN df.rating_clean
                          ELSE df.price_clean
                    ys == IF key = "price_vs_rating" THEN df.rating_clean
                          ELSE df.review_count_clean
                IN  (Len(csv) = 1 \/ Constant(xs) \/ Constant(ys))
                        => results.correlations[key] = Num(0)
    /\ chart # NoChart => \A i, j \in 1..3 : ~ IsNaN(chart[i][j])

(* C9: every numeric field of the written JSON artifact is a finite      *)
(* number for every non-empty dataset, a single record included: the     *)
(* std_dev of price_analysis, rating_analysis and review_analysis is     *)
(* never NaN.                                                            *)
C9_ArtifactFinite ==
    (pc = "done" /\ output_file /\ Len(csv) > 0) =>
        /\ \A block \in {"price_analysis", "rating_analysis", "review_analysis"} :
              \A f \in {"min", "max", "mean", "median", "std_dev"} :
                  ~ IsNaN(artifact[block][f])
        /\ ~ IsNaN(artifact.summary.average_price)
        /\ ~ IsNaN(artifact.summary.average_rating)

Abs(x) == IF x < 0 THEN -x ELSE x

HalfSteps(x) == {50 * k : k \in 0..(Abs(x) \div 50 + 1)}

(* the nearest multiple of 0.5, a tie (x.25, x.75) going away from zero *)
NearestHalfAway(x) ==
    CHOOSE r \in HalfSteps(x) :
        Abs(r - x) <= 25 /\ (Abs(r - x) = 25 => r > x)

(* the nearest multiple of 0.5, a tie going to the whole number, the *)
(* multiple whose double is even                                     *)
NearestHalfEven(x) ==
    CHOOSE r \in HalfSteps(x) :
        Abs(r - x) <= 25 /\ (Abs(r - x) = 25 => r % 100 = 0)

NonDegenerateRatings == Analyzed /\ Len(csv) > 0 /\ Max(df.rating_clean) # 0

(* dist lists each value of Rounding over the ratings once, ascending, *)
(* with the number of records that round to it                         *)
IsDistributionOf(dist, Rounding(_)) ==
    LET xs == df.rating_clean
    IN  /\ Len(dist.ratings) = Len(dist.counts)
        /\ \A a, b \in 1..Len(dist.ratings) : a < b => dist.ratings[a] < dist.ratings[b]
        /\ {dist.ratings[a] : a \in 1..Len(dist.ratings)}
              = {Rounding(xs[i]) : i \in 1..Len(xs)}
        /\ \A a \in 1..Len(dist.ratings) :
              dist.counts[a] = Count(xs, LAMBDA x : Rounding(x) = dist.ratings[a])

(* C10 as stated: each rating is rounded to the nearest multiple of 0.5, *)
(* a rating exactly halfway (x.25, x.75) away from zero (4.25 -> 4.5,    *)
(* 4.75 -> 5.0), and the distribution lists each rounded value once, in  *)
(* ascending order, with the number of records that rounded to it.       *)
C10_RoundHalfAwayFromZero ==
    NonDegenerateRatings =>
        IsDistributionOf(results.rating_analysis.distribution, NearestHalfAway)

(* C10 amended: each rating is rounded to the nearest multiple of 0.5, a *)
(* rating exactly halfway (x.25, x.75) to the whole number (4.25 -> 4.0, *)
(* 4.75 -> 5.0; 4.3 -> 4.5, 4.24 -> 4.0, 4.26 -> 4.5), and when some     *)
(* rating is not zero the distribution lists each rounded value once, in *)
(* ascending order, with the number of records that rounded to it.       *)
C10_RoundHalfToEven ==
    NonDegenerateRatings =>
        /\ IsDistributionOf(results.rating_analysis.distribution, NearestHalfEven)
        /\ \A e \in {<<430, 450>>, <<424, 400>>, <<426, 450>>, <<425, 400>>, <<475, 500>>} :
              (\E i \in 1..Len(csv) : df.rating_clean[i] = e[1])
                  => \E a \in 1..Len(results.rating_analysis.distribution.ratings) :
                        results.rating_analysis.distribution.ratings[a] = e[2]

(* a distribution has been computed over a rating that lies exactly *)
(* halfway and over one that does not                               *)
C10_Witness ==
    /\ NonDegenerateRatings
    /\ \E i \in 1..Len(csv) : df.rating_clean[i] \in {425, 475}
    /\ \E i \in 1..Len(csv) : df.rating_clean[i] \in {424, 426, 430}
    /\ Len(results.rating_analysis.distribution.ratings) = 2

-----------------------------------------------------------------------------
(* Failure handling of perform_analysis and analyze_file *)

(* the title block computation raises on the cleaned frame *)
TitleBlockRaises == Cleaned /\ pc # "analyze" /\ perform_analysis_raises(df)

(* C11: failure isolation per block: when computing one analysis block     *)
(* raises (here the title block), perform_analysis still returns normally, *)
(* the failing block holds its degenerate output plus an 'error' string    *)
(* and every sibling block holds the value it would have had without the   *)
(* failure.                                                                *)
C11_BlockFailureIsolated ==
    TitleBlockRaises =>
        /\ Analyzed
        /\ "error" \in DOMAIN results.title_analysis
        /\ results.title_analysis.top_words = <<[word |-> no_data, count |-> 1]>>
        /\ results.summary.total_products = Len(csv)
        /\ results.price_analysis.price_ranges = get_price_ranges(df)
        /\ results.rating_analysis.distribution = get_rating_distribution(df)
        /\ results.review_analysis.distribution = get_review_distribution(df)
        /\ DOMAIN results.correlations = CorrelationKeys

(* the input file was read and has no column c *)
Lacks(c) == readable /\ c \notin columns

(* C12: a missing required column is fatal: for each of title, price,    *)
(* rating and review_count, analyze_file on a CSV that lacks that column *)
(* raises to the caller and returns no result; it does not continue with *)
(* that field zero-filled.                                               *)
C12_MissingColumnFatal ==
    \A c \in RequiredColumns :
        (Lacks(c) /\ Returned) =>
            /\ pc = "raised"
            /\ results = NoDocument

(* the input file has a fatal error: it cannot be read, or it lacks a *)
(* required column                                                   *)
FatalInput == ~ readable \/ columns # RequiredColumns

(* C13: when analyze_file fails with a fatal input error (input file    *)
(* missing, unreadable, or lacking a required column), it raises to the *)
(* caller and the output file is never opened or written (no artifact   *)
(* exists), and no progress value of 0.8 or 1.0 is reported.            *)
C13_NoArtifactOnFatalError ==
    FatalInput =>
        /\ ~ Analyzed
        /\ results = NoDocument
        /\ artifact = NoDocument
        /\ \A i \in 1..Len(progress) : progress[i] \notin {8, 10}

(* a run that raises, whatever the exception, has returned no result, has *)
(* written no artifact and has reported neither 0.8 nor 1.0               *)
RaisedLeavesNoArtifact ==
    pc = "raised" =>
        /\ results = NoDocument
        /\ artifact = NoDocument
        /\ \A i \in 1..Len(progress) : progress[i] \notin {8, 10}

-----------------------------------------------------------------------------
(* Degenerate datasets *)

AnalysisBlocks == {"price_analysis", "rating_analysis", "review_analysis",
                   "title_analysis", "correlations"}

(* C14: for an empty dataset (zero records) perform_analysis returns,    *)
(* without raising, a result whose summary has total_products = 0,       *)
(* average_price = 0, average_rating = 0, total_reviews = 0 and an       *)
(* 'error' marker string, and whose price_analysis, rating_analysis,     *)
(* review_analysis, title_analysis and correlations blocks are empty.    *)
C14_EmptyDataset ==
    (Cleaned /\ pc # "analyze" /\ Len(csv) = 0) =>
        /\ Analyzed
        /\ results.summary.total_products = 0
        /\ results.summary.average_price = Num(0)
        /\ results.summary.average_rating = Num(0)
        /\ results.summary.total_reviews = 0
        /\ "error" \in DOMAIN results.summary
        /\ results.summary.error = "No valid products found after data cleaning"
        /\ \A b \in AnalysisBlocks : DOMAIN results[b] = {}

(* a file with the four columns and no record has been analysed *)
C14_Witness ==
    /\ readable /\ columns = RequiredColumns /\ csv = <<>>
    /\ pc = "done"
    /\ results.summary.total_products = 0
    /\ results.title_analysis = EmptyBlock

(* C15: for a dataset of N >= 1 records whose normalized prices are all 0 *)
(* the price distribution is exactly ranges = ['<$25'], counts = [0] with *)
(* no 'error' field (the degenerate form, not the 7-bucket table), while  *)
(* summary.total_products is still N.                                     *)
C15_AllZeroPrices ==
    (Analyzed /\ Len(csv) >= 1 /\ AllZero(df.price_clean)) =>
        /\ results.price_analysis.price_ranges.ranges = <<"<$25">>
        /\ results.price_analysis.price_ranges.counts = <<0>>
        /\ DOMAIN results.price_analysis.price_ranges = {"ranges", "counts"}
        /\ results.summary.total_products = Len(csv)

(* two records with an unparseable price ("Free") have been analysed *)
C15_Witness ==
    /\ Analyzed
    /\ Len(csv) = 2
    /\ \A i \in 1..2 : csv[i].price = <<"F", "r", "e", "e">>
    /\ AllZero(df.price_clean)
    /\ results.summary.total_products = 2

-----------------------------------------------------------------------------
(* Title analysis *)

(* a record whose title is analysed: present and not the placeholder *)
Eligible(r) == ~ Absent(r.title) /\ r.title # UnknownProduct

(* the titles of the eligible records, in dataset order *)
EligibleTitles ==
    LET rs == SelectSeq(csv, Eligible) IN [i \in 1..Len(rs) |-> rs[i].title]

(* n letters of the title t from position i on, with a word boundary on *)
(* either side                                                         *)
IsWord(t, i, n) ==
    /\ i + n - 1 <= Len(t)
    /\ \A k \in i..(i + n - 1) : t[k] \in Letters
    /\ i = 1 \/ t[i - 1] \notin WordChars
    /\ i + n - 1 = Len(t) \/ t[i + n] \notin WordChars

(* the counted words of title number k, t, each with the place where it *)
(* stands, as <<k, i, n, word>>: a run of 3 to 15 letters between word  *)
(* boundaries that, in lower case, is not a stop word                   *)
CountedWords(k, t) ==
    LET starts  == {i \in 1..Len(t) : i = 1 \/ t[i - 1] \notin WordChars}
        word(p) == Lower(SubSeq(t, p[1], p[1] + p[2] - 1))
    IN  {<<k, p[1], p[2], word(p)>> :
            p \in {q \in starts \X (MinWordLen..MaxWordLen) :
                      IsWord(t, q[1], q[2]) /\ word(q) \notin stop_words}}

(* the counted words of the eligible titles *)
Counted ==
    UNION {CountedWords(k, EligibleTitles[k]) : k \in 1..Len(EligibleTitles)}

(* how often the word w is among the counted words cw *)
Occurrences(cw, w) == Cardinality({x \in cw : x[4] = w})

Placeholder == <<[word |-> no_data, count |-> 1]>>

(* perform_analysis has returned the analysis of a dataset with records *)
TitlesAnalyzed == Analyzed /\ Len(csv) > 0

(* C16: a record whose title is absent (empty or 'N/A') gets the title    *)
(* 'Unknown Product'; a record whose title equals 'Unknown Product'       *)
(* contributes no token to top_words and is not counted in a sentiment    *)
(* bucket or in average_sentiment, yet it is counted in                   *)
(* summary.total_products and in the price, rating and review statistics. *)
C16_PlaceholderTitles ==
    /\ Cleaned =>
          \A i \in 1..Len(csv) :
              Absent(csv[i].title) => df.title.vals[i] = Str(UnknownProduct)
    /\ TitlesAnalyzed =>
          LET ta == results.title_analysis
              cw == Counted
              polarities == [i \in 1..Len(EligibleTitles) |-> Polarity(EligibleTitles[i])]
          IN  /\ IF cw = {} THEN ta.top_words = Placeholder
                 ELSE \A k \in 1..Len(ta.top_words) :
                          ta.top_words[k].count = Occurrences(cw, ta.top_words[k].word)
              /\ ta.positive_titles + ta.neutral_titles + ta.negative_titles
                    = Len(EligibleTitles)
              /\ ta.average_sentiment =
                    IF EligibleTitles = <<>> THEN Num(0)
                    ELSE Frac(SumSeq(polarities), Len(EligibleTitles))
              /\ results.summary.total_products = Len(csv)
              /\ results.price_analysis.mean.den = Len(csv)
              /\ results.rating_analysis.mean.den = Len(csv)
              /\ results.review_analysis.mean.den = Len(csv)

(* a record without a title beside a record with one has been analysed *)
C16_Witness ==
    /\ TitlesAnalyzed
    /\ Len(csv) = 2
    /\ Absent(csv[1].title)
    /\ df.title.vals[1] = Str(UnknownProduct)
    /\ Eligible(csv[2])
    /\ results.title_analysis.top_words # Placeholder
    /\ results.summary.total_products = 2

(* the counted word x stands before the counted word y in the scan of the *)
(* eligible titles in dataset order                                       *)
Earlier(x, y) == x[1] < y[1] \/ (x[1] = y[1] /\ x[2] < y[2])

(* the first place where the word w is counted *)
FirstSeen(cw, w) ==
    LET xs == {x \in cw : x[4] = w}
    IN  CHOOSE x \in xs : \A y \in xs : ~ Earlier(y, x)

(* the word v, counted m times, ranks before the word w, counted n times: *)
(* it is counted more often, or as often and encountered first            *)
RanksBefore(cw, v, m, w, n) ==
    m > n \/ (m = n /\ Earlier(FirstSeen(cw, v), FirstSeen(cw, w)))

(* C17: top_words holds at most 20 entries, ordered by non-increasing     *)
(* count; two words with equal count appear in the order in which they    *)
(* were first encountered when scanning the eligible titles in dataset    *)
(* order; each word appears at most once and its count is its number of   *)
(* occurrences across all eligible titles.  If no token survives          *)
(* filtering, top_words is exactly the single placeholder no_data -> 1.   *)
C17_TopWords ==
    TitlesAnalyzed =>
        LET tw == results.title_analysis.top_words
            cw == Counted
            words  == {x[4] : x \in cw}
            listed == {tw[k].word : k \in 1..Len(tw)}
        IN  IF cw = {} THEN tw = Placeholder
            ELSE /\ Len(tw) <= TopWords
                 /\ Len(tw) = TopWords \/ listed = words
                 /\ \A k \in 1..Len(tw) :
                        /\ tw[k].word \in words
                        /\ tw[k].count = Occurrences(cw, tw[k].word)
                 /\ \A j, k \in 1..Len(tw) :
                        j < k => /\ tw[j].word # tw[k].word
                                 /\ tw[j].count >= tw[k].count
                                 /\ RanksBefore(cw, tw[j].word, tw[j].count,
                                                tw[k].word, tw[k].count)
                 /\ \A w \in words \ listed :
                        \A k \in 1..Len(tw) :
                            RanksBefore(cw, tw[k].word, tw[k].count,
                                        w, Occurrences(cw, w))

(* more than 20 distinct words were counted, one of them more often than *)
(* the others, which tie                                                 *)
C17_Witness ==
    /\ TitlesAnalyzed
    /\ Cardinality({x[4] : x \in Counted}) > TopWords
    /\ Len(results.title_analysis.top_words) = TopWords
    /\ results.title_analysis.top_words[1].count > results.title_analysis.top_words[2].count
    /\ results.title_analysis.top_words[2].count = results.title_analysis.top_words[3].count

(* an eligible title without a counted word gives the placeholder *)
C17_WitnessNoToken ==
    /\ TitlesAnalyzed
    /\ EligibleTitles # <<>>
    /\ Counted = {}
    /\ results.title_analysis.top_words = Placeholder

GreatWidgetC ==
    <<"G", "r", "e", "a", "t", " ", "W", "i", "d", "g", "e", "t", " ", "C">>

(* C18: a word of a title is counted iff, after lower-casing, it is a run *)
(* of 3 to 15 ASCII letters delimited by word boundaries and is not a     *)
(* stop word; shorter and longer words contribute no token (a longer word *)
(* is not truncated into a 15-letter token) and no token spans two        *)
(* titles.  For the single title 'Great Widget C' the counted tokens are  *)
(* exactly great -> 1 and widget -> 1.                                    *)
C18_Tokenization ==
    TitlesAnalyzed =>
        LET tw == results.title_analysis.top_words
            words  == {x[4] : x \in Counted}
            listed == {tw[k].word : k \in 1..Len(tw)}
        IN  /\ words = {} => listed = {no_data}
            /\ words # {} => listed \subseteq words
            /\ (words # {} /\ Cardinality(words) <= TopWords) => listed = words
            /\ \A w \in listed \ {no_data} :
                   /\ Len(w) >= 3 /\ Len(w) <= 15
                   /\ \A i \in 1..Len(w) : w[i] \in {LowerCase[j] : j \in 1..26}
                   /\ w \notin stop_words
            /\ (Len(csv) = 1 /\ csv[1].title = GreatWidgetC) =>
                   tw = <<[word |-> <<"g", "r", "e", "a", "t">>, count |-> 1],
                          [word |-> <<"w", "i", "d", "g", "e", "t">>, count |-> 1]>>

(* the single title analysed has a word of more than 15 letters, a word *)
(* with a digit, a stop word and more countable words than are listed   *)
C18_Witness ==
    /\ TitlesAnalyzed
    /\ Len(csv) = 1
    /\ \E i \in 1..Len(csv[1].title) :
           \E n \in (MaxWordLen + 1)..Len(csv[1].title) : IsWord(csv[1].title, i, n)
    /\ \E i \in 1..Len(csv[1].title) : csv[1].title[i] \in Digits
    /\ \E x \in CountedWords(1, csv[1].title) : TRUE
    /\ Len(results.title_analysis.top_words) = TopWords

(* the sentiment bucket of a polarity s in hundredths *)
Bucket(s) == IF s > 20 THEN "positive" ELSE IF s < -20 THEN "negative" ELSE "neutral"

(* the number of eligible titles whose polarity falls in the bucket b *)
InBucket(b) ==
    Cardinality({i \in 1..Len(EligibleTitles) : Bucket(Polarity(EligibleTitles[i])) = b})

(* C19: sentiment buckets partition the eligible titles: each eligible    *)
(* title is counted in exactly one of positive (score > 0.2), negative    *)
(* (score < -0.2) or neutral (-0.2 <= score <= 0.2), so the three counts  *)
(* add up to the number of non-placeholder titles; with no eligible title *)
(* the three counts and average_sentiment are all 0 and no division by    *)
(* zero occurs.                                                           *)
C19_SentimentPartition ==
    TitlesAnalyzed =>
        LET ta == results.title_analysis
        IN  /\ ta.positive_titles = InBucket("positive")
            /\ ta.neutral_titles = InBucket("neutral")
            /\ ta.negative_titles = InBucket("negative")
            /\ ta.positive_titles + ta.neutral_titles + ta.negative_titles
                  = Len(EligibleTitles)
            /\ IF EligibleTitles = <<>>
               THEN /\ ta.positive_titles = 0
                    /\ ta.neutral_titles = 0
                    /\ ta.negative_titles = 0
                    /\ ta.average_sentiment = Num(0)
               ELSE /\ ta.average_sentiment.k = "frac"
                    /\ ta.average_sentiment.den = Len(EligibleTitles)

(* a positive and a negative title have been analysed *)
C19_Witness ==
    /\ TitlesAnalyzed
    /\ Len(EligibleTitles) = 2
    /\ results.title_analysis.positive_titles = 1
    /\ results.title_analysis.negative_titles = 1
    /\ results.title_analysis.neutral_titles = 0

(* records without an eligible title have been analysed *)
C19_WitnessNoTitle ==
    /\ TitlesAnalyzed
    /\ EligibleTitles = <<>>
    /\ results.title_analysis.average_sentiment = Num(0)

-----------------------------------------------------------------------------
(* Progress reporting *)

(* the document analyze_file computes from the input file alone *)
ResultOfInput == perform_analysis(clean_data(read_csv(csv, columns)).df)

(* C20: within one analyze_file run the values passed to the progress      *)
(* callback are non-decreasing and lie in [0, 1] (0..10 tenths); 1.0 is    *)
(* reported only after the output artifact has been written (when an       *)
(* output file is given); and the result returned is the same whether or   *)
(* not a callback is supplied: it is the document of the input file alone. *)
C20_ProgressMonotone ==
    /\ \A i \in 1..Len(progress) : progress[i] >= 0 /\ progress[i] <= 10
    /\ \A i, j \in 1..Len(progress) : i < j => progress[i] <= progress[j]
    /\ ~ progress_callback => progress = <<>>
    /\ (output_file /\ \E i \in 1..Len(progress) : progress[i] = 10) =>
           /\ Analyzed
           /\ artifact = results
           /\ artifact # NoDocument
    /\ pc = "done" => results = ResultOfInput

(* a run with an output file and a callback has returned *)
C20_Witness ==
    /\ pc = "done"
    /\ Len(csv) > 0
    /\ output_file
    /\ progress_callback
    /\ progress = <<1, 2, 4, 8, 10>>
    /\ artifact = results

-----------------------------------------------------------------------------
(* The result document *)

DocumentKeys == {"summary", "price_analysis", "rating_analysis",
                 "review_analysis", "title_analysis", "correlations",
                 "timestamp"}

(* C21: every result document returned by perform_analysis, for empty and *)
(* non-empty datasets alike, has exactly the seven top-level keys summary, *)
(* price_analysis, rating_analysis, review_analysis, title_analysis,       *)
(* correlations and timestamp, and timestamp is always set.                *)
C21_DocumentKeys ==
    Analyzed =>
        /\ DOMAIN results = DocumentKeys
        /\ results.timestamp = "now"
        /\ output_file /\ pc \in {"return", "done"} => DOMAIN artifact = DocumentKeys

(* the documents of a dataset with records have been returned and written *)
C21_Witness ==
    /\ pc = "done"
    /\ output_file
    /\ Len(csv) = 2
    /\ DOMAIN results = DocumentKeys
    /\ DOMAIN results.price_analysis # {}

-----------------------------------------------------------------------------
(* Field normalization, record by record *)

(* the number (in hundredths) a raw price stands for, taken on its own: *)
(* every '$' and ',' deleted, 0 when absent or not a number             *)
OwnPrice(cell) ==
    LET y == ToNumeric(RemoveChars(cell, {"$", ","}))
    IN  IF Absent(cell) \/ IsNaN(y) THEN 0 ELSE y.v

(* C22: for an unparseable or absent price the normalized price is 0.0, *)
(* and for a price string made of an optional '$', digits, thousands    *)
(* separators and an optional decimal part it is the number obtained    *)
(* after deleting every '$' and ',' ('$1,234.50' gives 1234.50).        *)
C22_PriceNormalized ==
    (readable /\ "price" \in columns /\ "title" \in columns) =>
        /\ error # "AttributeError"
        /\ Cleaned =>
              \A i \in 1..Len(csv) : df.price_clean[i] = OwnPrice(csv[i].price)

(* the number (in hundredths) a raw rating stands for, taken on its own: *)
(* its first substring of digits, '.', digits; 0 when absent or without  *)
(* such a substring                                                      *)
OwnRating(cell) ==
    LET y == IF Absent(cell) THEN NaN ELSE ExtractFloat(cell)
    IN  IF IsNaN(y) \/ IsNaN(ToNumeric(y.s)) THEN 0 ELSE ToNumeric(y.s).v

(* C23: for a rating text '<d>.<d> out of 5 stars' the normalized rating *)
(* is <d>.<d>; in general it is the first substring of the raw text that *)
(* matches digits '.' digits, read as a number; when the rating is       *)
(* absent or contains no such substring the normalized rating is 0.0.    *)
C23_RatingNormalized ==
    (Cleaned /\ "rating" \in columns) =>
        \A i \in 1..Len(csv) : df.rating_clean[i] = OwnRating(csv[i].rating)

-----------------------------------------------------------------------------
(* The correlation heatmap *)

(* the value the matrix shows for the correlation key of the document: *)
(* 0 when it is missing or NaN                                         *)
Shown(doc, key) ==
    IF "correlations" \notin DOMAIN doc THEN Num(0)
    ELSE IF key \notin DOMAIN doc.correlations THEN Num(0)
    ELSE IF IsNaN(doc.correlations[key]) THEN Num(0)
    ELSE doc.correlations[key]

(* C24: the 3x3 matrix create_correlation_chart builds from a result    *)
(* document has 1 on its diagonal, is symmetric and contains no NaN: a  *)
(* correlation that is missing from the document or is NaN is replaced  *)
(* by 0, and a document without a 'correlations' key yields the         *)
(* identity matrix.                                                     *)
C24_CorrelationMatrix ==
    chart # NoChart =>
        /\ Len(chart) = 3
        /\ \A i \in 1..3 : Len(chart[i]) = 3 /\ chart[i][i] = Num(1)
        /\ \A i, j \in 1..3 : chart[i][j] = chart[j][i] /\ ~ IsNaN(chart[i][j])
        /\ chart[1][2] = Shown(artifact, "price_vs_rating")
        /\ chart[1][3] = Shown(artifact, "price_vs_reviews")
        /\ chart[2][3] = Shown(artifact, "rating_vs_reviews")
        /\ "correlations" \notin DOMAIN artifact =>
               \A i, j \in 1..3 : chart[i][j] = IF i = j THEN Num(1) ELSE Num(0)

(* the matrix of a document with one NaN, one missing and one defined *)
(* correlation                                                        *)
C24_Witness ==
    /\ chart # NoChart
    /\ "correlations" \in DOMAIN artifact
    /\ DOMAIN artifact.correlations = {"price_vs_rating", "rating_vs_reviews"}
    /\ IsNaN(artifact.correlations["price_vs_rating"])
    /\ artifact.correlations["rating_vs_reviews"].k = "corr"
    /\ chart[1][2] = Num(0)
    /\ chart[1][3] = Num(0)
    /\ chart[3][2].k = "corr"

-----------------------------------------------------------------------------
(* Web insights (modules/serper_api.py) *)

(* str.split(): the maximal runs of characters that are not whitespace *)
RECURSIVE Split(_)
Split(s) ==
    IF s = <<>> THEN <<>>
    ELSE IF s[1] = " " THEN Split(Tail(s))
    ELSE LET e == IF \E i \in 1..Len(s) : s[i] = " "
                  THEN (CHOOSE i \in 1..Len(s) :
                            /\ s[i] = " "
                            /\ \A j \in 1..(i - 1) : s[j] # " ") - 1
                  ELSE Len(s)
         IN  <<SubSeq(s, 1, e)>> \o Split(SubSeq(s, e + 1, Len(s)))

positive_words ==
    <<<<"g", "r", "e", "a", "t">>,
      <<"b", "e", "s", "t">>,
      <<"a", "m", "a", "z", "i", "n", "g">>,
      <<"e", "x", "c", "e", "l", "l", "e", "n", "t">>,
      <<"g", "o", "o", "d">>,
      <<"p", "o", "s", "i", "t", "i", "v", "e">>,
      <<"r", "e", "c", "o", "m", "m", "e", "n", "d", "e", "d">>,
      <<"b", "e", "t", "t", "e", "r">>,
      <<"i", "m", "p", "r", "e", "s", "s", "i", "v", "e">>,
      <<"p", "o", "w", "e", "r", "f", "u", "l">>,
      <<"f", "a", "s", "t">>,
      <<"i", "m", "p", "r", "o", "v", "e", "d">>,
      <<"l", "o", "v", "e">>,
      <<"p", "e", "r", "f", "e", "c", "t">>,
      <<"a", "w", "e", "s", "o", "m", "e">>,
      <<"w", "o", "r", "t", "h">>,
      <<"s", "u", "p", "e", "r", "i", "o", "r">>>>

negative_words ==
    <<<<"b", "a", "d">>,
      <<"w", "o", "r", "s", "t">>,
      <<"t", "e", "r", "r", "i", "b", "l", "e">>,
      <<"p", "o", "o", "r">>,
      <<"n", "e", "g", "a", "t", "i", "v", "e">>,
      <<"a", "v", "o", "i", "d">>,
      <<"p", "r", "o", "b", "l", "e", "m", "s">>,
      <<"i", "s", "s", "u", "e", "s">>,
      <<"d", "i", "s", "a", "p", "p", "o", "i", "n", "t", "i", "n", "g">>,
      <<"s", "l", "o", "w">>,
      <<"o", "v", "e", "r", "p", "r", "i", "c", "e", "d">>,
      <<"l", "i", "m", "i", "t", "e", "d">>,
      <<"b", "r", "o", "k", "e", "n">>,
      <<"f", "a", "i", "l", "s">>,
      <<"f", "a", "i", "l", "s">>,
      <<"w", "o", "r", "s", "e">>>>

(* result.get(key, "") *)
Get(result, key) == IF key \in DOMAIN result THEN result[key] ELSE <<>>

(* sum(1 for word in words if word in text.split()) *)
CueCount(words, text) ==
    LET tokens == {Split(text)[i] : i \in 1..Len(Split(text))}
    IN  Cardinality({i \in 1..Len(words) : words[i] \in tokens})

(* the sentiment of one organic result *)
sentiment(result) ==
    LET text      == Lower(Get(result, "title") \o <<" ">> \o Get(result, "snippet"))
        pos_count == CueCount(positive_words, text)
        neg_count == CueCount(negative_words, text)
    IN  IF pos_count > neg_count THEN "positive"
        ELSE IF neg_count > pos_count THEN "negative"
        ELSE "neutral"

extract_sentiment_keywords(search_results) ==
    IF "organic" \in DOMAIN search_results
    THEN [i \in 1..Len(search_results.organic) |->
             LET result == search_results.organic[i]
             IN  [source    |-> Get(result, "link"),
                  title     |-> Get(result, "title"),
                  snippet   |-> Get(result, "snippet"),
                  sentiment |-> sentiment(result)]]
    ELSE <<>>

(* the position of the first "//" of the link, 0 when it has none *)
DoubleSlash(link) ==
    LET at == {i \in 1..(Len(link) - 1) : link[i] = "/" /\ link[i + 1] = "/"}
    IN  IF at = {} THEN 0 ELSE CHOOSE i \in at : \A j \in at : i <= j

(* link.split("//")[1] raises IndexError on a link without "//" *)
SourceRaises(result) == DoubleSlash(Get(result, "link")) = 0

(* link.split("//")[1].split("/")[0] *)
SourceOf(link) ==
    LET rest == SubSeq(link, DoubleSlash(link) + 2, Len(link))
        at   == {i \in 1..Len(rest) : rest[i] = "/"}
    IN  IF at = {} THEN rest
        ELSE SubSeq(rest, 1, (CHOOSE i \in at : \A j \in at : i <= j) - 1)

TopEntries == 5

(* xs[:5] *)
Head5(xs) == SubSeq(xs, 1, IF Len(xs) < TopEntries THEN Len(xs) ELSE TopEntries)

format_insights(ins) ==
    LET general == IF "general" \in DOMAIN ins /\ "organic" \in DOMAIN ins.general
                   THEN Head5(ins.general.organic) ELSE <<>>
        keywords == IF "reviews" \in DOMAIN ins
                    THEN extract_sentiment_keywords(ins.reviews) ELSE <<>>
        news    == IF "news" \in DOMAIN ins /\ "news" \in DOMAIN ins.news
                   THEN Head5(ins.news.news) ELSE <<>>
        count(s) == Cardinality({i \in 1..Len(keywords) : keywords[i].sentiment = s})
    IN  IF \E i \in 1..Len(general) : SourceRaises(general[i])
        THEN [raised |-> TRUE]
        ELSE [raised |-> FALSE,
              top_sources |->
                  [i \in 1..Len(general) |->
                      [title   |-> Get(general[i], "title"),
                       link    |-> Get(general[i], "link"),
                       source  |-> SourceOf(Get(general[i], "link")),
                       snippet |-> Get(general[i], "snippet")]],
              sentiment_overview |->
                  [positive |-> count("positive"),
                   neutral  |-> count("neutral"),
                   negative |-> count("negative")],
              key_phrases |-> <<>>,
              recent_news |->
                  [i \in 1..Len(news) |->
                      [title   |-> Get(news[i], "title"),
                       link    |-> Get(news[i], "link"),
                       source  |-> Get(news[i], "source"),
                       date    |-> Get(news[i], "date"),
                       snippet |-> Get(news[i], "snippet")]]]

(* organic results of the review search: "Great laptop, fast and powerful" *)
(* | "Best value"; "Good but fails" | ""; "Terrible! BAD Worst" | "love";   *)
(* "Unbreakable goodness" | "good bad"; "Slow" | "worth it"; and a result   *)
(* without title and snippet                                              *)
ReviewResults ==
    {[title |-> <<"G", "r", "e", "a", "t", " ", "l", "a", "p", "t", "o", "p", ",", " ", "f", "a", "s", "t", " ", "a", "n", "d", " ", "p", "o", "w", "e", "r", "f", "u", "l">>,
      snippet |-> <<"B", "e", "s", "t", " ", "v", "a", "l", "u", "e">>,
      link |-> <<"h", "t", "t", "p", "s", ":", "/", "/", "r", "e", "d", "d", "i", "t", ".", "c", "o", "m", "/", "r", "/", "a">>],
     [title |-> <<"G", "o", "o", "d", " ", "b", "u", "t", " ", "f", "a", "i", "l", "s">>,
      snippet |-> <<>>,
      link |-> <<"h", "t", "t", "p", "s", ":", "/", "/", "r", "e", "d", "d", "i", "t", ".", "c", "o", "m", "/", "r", "/", "b">>],
     [title |-> <<"T", "e", "r", "r", "i", "b", "l", "e", "!", " ", "B", "A", "D", " ", "W", "o", "r", "s", "t">>,
      snippet |-> <<"l", "o", "v", "e">>,
      link |-> <<"h", "t", "t", "p", "s", ":", "/", "/", "t", "r", "u", "s", "t", "p", "i", "l", "o", "t", ".", "c", "o", "m", "/", "c">>],
     [title |-> <<"U", "n", "b", "r", "e", "a", "k", "a", "b", "l", "e", " ", "g", "o", "o", "d", "n", "e", "s", "s">>,
      snippet |-> <<"g", "o", "o", "d", " ", "b", "a", "d">>,
      link |-> <<"h", "t", "t", "p", "s", ":", "/", "/", "r", "e", "d", "d", "i", "t", ".", "c", "o", "m", "/", "r", "/", "d">>],
     [title |-> <<"S", "l", "o", "w">>,
      snippet |-> <<"w", "o", "r", "t", "h", " ", "i", "t">>,
      link |-> <<"h", "t", "t", "p", "s", ":", "/", "/", "r", "e", "d", "d", "i", "t", ".", "c", "o", "m", "/", "r", "/", "e">>],
     [link |-> <<"h", "t", "t", "p", "s", ":", "/", "/", "r", "e", "d", "d", "i", "t", ".", "c", "o", "m", "/", "r", "/", "f">>]}

MaxReviews == 2

(* the answers of the review search: none, one without organic results, *)
(* or up to MaxReviews organic results                                   *)
ReviewAnswers ==
    {[organic |-> rs] : rs \in UNION {[1..n -> ReviewResults] : n \in 0..MaxReviews}}
    \cup {[searchParameters |-> <<"q">>]}

(* the i-th organic result of the general search *)
General(i) ==
    LET d == CHOOSE c \in Digits : DigitVal(c) = i
    IN  [title   |-> <<"P", d>>,
         link    |-> <<"h", "t", "t", "p", "s", ":", "/", "/", "s", d, ".", "c", "o", "m", "/", "p", "/", d>>,
         snippet |-> <<"p">>]

(* the answers of the general search: no, one or six organic results, a *)
(* result without a link, or an answer without organic results          *)
GeneralAnswers ==
    {[organic |-> <<>>],
     [organic |-> <<General(1)>>],
     [organic |-> [i \in 1..6 |-> General(i)]],
     [organic |-> <<General(1), [title |-> <<"P", "7">>, snippet |-> <<"p">>]>>],
     [searchParameters |-> <<"q">>]}

(* the i-th result of the news search *)
News(i) ==
    LET d == CHOOSE c \in Digits : DigitVal(c) = i
    IN  [title   |-> <<"N", d>>,
         link    |-> <<"h", "t", "t", "p", "s", ":", "/", "/", "n", ".", "c", "o", "m", "/", d>>,
         source  |-> <<"n">>,
         date    |-> <<d, "h">>,
         snippet |-> <<"n">>]

NewsAnswers ==
    {[news |-> <<>>],
     [news |-> <<News(1), News(2)>>],
     [news |-> [i \in 1..6 |-> News(i)]],
     [searchParameters |-> <<"q">>]}

(* a dict with the given keys of the three answers *)
Insights(keys, g, r, n) ==
    [key \in keys |-> IF key = "general" THEN g
                      ELSE IF key = "reviews" THEN r ELSE n]

(* the raw insights: any of the three searches may be missing *)
InsightDocs ==
    {Insights(keys, g, r, n) :
        keys \in SUBSET {"general", "reviews", "news"},
        g \in GeneralAnswers, r \in ReviewAnswers, n \in NewsAnswers}

(* format_insights(insights) *)
FormatInsights ==
    /\ insights_pc = "call"
    /\ formatted' = format_insights(insights)
    /\ insights_pc' = "return"
    /\ UNCHANGED <<analyzerVars, insights, appVars>>

InitInsights ==
    /\ insights \in InsightDocs
    /\ insights_pc = "call"
    /\ formatted = NoInsights
    /\ AnalyzerIdle
    /\ AppIdle

InsightsNext == FormatInsights

InsightsSpec == InitInsights /\ [][InsightsNext]_vars

(* the cue words of the list that occur as whole words in the text *)
CueWords(words, text) ==
    {w \in {words[i] : i \in 1..Len(words)} :
        \E i \in 1..Len(Split(text)) : Split(text)[i] = w}

(* the sentiment of a result by its numbers of positive and negative cue words *)
OwnSentiment(result) ==
    LET text == Lower(Get(result, "title") \o <<" ">> \o Get(result, "snippet"))
        p    == Cardinality(CueWords(positive_words, text))
        n    == Cardinality(CueWords(negative_words, text))
    IN  IF p > n THEN "positive" ELSE IF n > p THEN "negative" ELSE "neutral"

(* the organic results of insights['reviews'] *)
ReviewsOf(ins) ==
    IF "reviews" \in DOMAIN ins /\ "organic" \in DOMAIN ins.reviews
    THEN ins.reviews.organic ELSE <<>>

(* C25: format_insights always returns the keys top_sources,             *)
(* sentiment_overview, key_phrases and recent_news; top_sources and      *)
(* recent_news hold at most 5 entries each; the three sentiment_overview *)
(* counters sum to the number of organic results of insights['reviews'], *)
(* each result counted as positive iff strictly more positive than       *)
(* negative cue words occur as whole words in its title and snippet,     *)
(* negative iff strictly more negative ones, neutral otherwise.          *)
C25_FormatInsights ==
    insights_pc = "return" =>
        /\ ~ formatted.raised
        /\ DOMAIN formatted = {"raised", "top_sources", "sentiment_overview",
                               "key_phrases", "recent_news"}
        /\ Len(formatted.top_sources) <= TopEntries
        /\ Len(formatted.recent_news) <= TopEntries
        /\ LET rs == ReviewsOf(insights)
               so == formatted.sentiment_overview
           IN  /\ so.positive + so.neutral + so.negative = Len(rs)
               /\ \A s \in {"positive", "neutral", "negative"} :
                      so[s] = Cardinality({i \in 1..Len(rs) : OwnSentiment(rs[i]) = s})

-----------------------------------------------------------------------------
(* The web application (app.py): the job registry and its threads *)

(* str.replace(' ', '_') *)
ReplaceSpaces(s) == [i \in 1..Len(s) |-> IF s[i] = " " THEN "_" ELSE s[i]]

(* the seconds of the clock: datetime.now() during 2025-01-01 00:00:0x *)
MaxClock == 1

(* datetime.now().strftime('%Y%m%d_%H%M%S') at second c *)
Timestamp(c) ==
    <<"2", "0", "2", "5", "0", "1", "0", "1", "_", "0", "0", "0", "0", "0",
      CHOOSE d \in Digits : DigitVal(d) = c>>

(* f"{search_term.replace(' ', '_')}_{timestamp}" *)
JobId(search_term, c) == ReplaceSpaces(search_term) \o <<"_">> \o Timestamp(c)

(* os.path.splitext(filename)[0] *)
Splitext(filename) ==
    LET dots == {i \in 1..Len(filename) : filename[i] = "."}
    IN  IF dots = {} THEN filename
        ELSE SubSeq(filename, 1, (CHOOSE i \in dots : \A j \in dots : j <= i) - 1)

(* the search terms submitted: "4k tv" *)
SearchTerms == {<<"4", "k", " ", "t", "v">>}

(* the CSV files of the upload folder: "products.csv" *)
CsvFiles == {<<"p", "r", "o", "d", "u", "c", "t", "s", ".", "c", "s", "v">>}

(* the request and job threads of one run of the server *)
MaxThreads == 4

(* the /analyze-csv requests of one run of the server *)
MaxCsvRequests == 2

(* a thread waits for jobs_lock, is inside a `with jobs_lock:` block, or is *)
(* at a statement outside one; n numbers the progress callbacks             *)
Wait(op) == [at |-> "lock", op |-> op, n |-> 0]

In(op) == [at |-> "in", op |-> op, n |-> 0]

At(op) == [at |-> "at", op |-> op, n |-> 0]

WaitProgress(n) == [at |-> "lock", op |-> "update_progress", n |-> n]

NoInfo == [k |-> "none"]

(* job_info = active_jobs[job_id]: the record itself *)
Ref(obj) == [k |-> "ref", obj |-> obj]

(* job_info = dict(active_jobs[job_id]): a copy of the record *)
Copy(rec) == [k |-> "copy", rec |-> rec]

Thread(kind, job_id, p) ==
    [kind |-> kind, job_id |-> job_id, pc |-> p, job_info |-> NoInfo,
     read |-> "nothing"]

(* the arguments progress_callback is called with, in hundredths: the *)
(* scraper on one page, then analyze_file                             *)
ScraperCalls == <<0, 100>>

AnalyzerCalls == <<10, 20, 40, 80, 100>>

(* int(progress * 100 * weight), progress and weight in hundredths *)
Percent(p, weight) == (p * weight) \div 100

(* the progress the n-th callback of run_scraper_job stores:            *)
(* update_progress(job_id, p, 0.5), then update_progress(job_id, 0.5 + p * 0.5) *)
JobProgress(n) ==
    IF n <= Len(ScraperCalls)
    THEN Percent(ScraperCalls[n], 50)
    ELSE Percent(50 + (AnalyzerCalls[n - Len(ScraperCalls)] * 50) \div 100, 100)

Requested(t, op) == t \in 1..Len(threads) /\ threads[t].pc = At(op)

Locked(t, op) ==
    t \in 1..Len(threads) /\ threads[t].pc = In(op) /\ jobs_lock = t

Goto(t, p) == [threads EXCEPT ![t].pc = p]

(* active_jobs[job_id][key] = value for the pairs of the function upd *)
SetItems(j, upd) ==
    [records EXCEPT ![active_jobs[j]] = upd @@ records[active_jobs[j]]]

(* the job IDs the clients have seen *)
KnownJobs == {threads[i].job_id : i \in 1..Len(threads)} \ {<<>>}

(* one second passes *)
Tick ==
    /\ clock < MaxClock
    /\ clock' = clock + 1
    /\ UNCHANGED <<analyzerVars, serperVars, active_jobs, records, jobs_lock,
                   threads, data_files, analysis_files>>

(* a request arrives and a thread of the server takes it *)
Arrive(kind, job_id, op) ==
    /\ Len(threads) < MaxThreads
    /\ threads' = Append(threads, Thread(kind, job_id, Wait(op)))
    /\ UNCHANGED <<analyzerVars, serperVars, clock, active_jobs, records,
                   jobs_lock, data_files, analysis_files>>

(* POST /search: the job ID is built, then the handler waits for the lock; *)
(* the thread it will start is the next one                                *)
search ==
    /\ Len(threads) + 1 < MaxThreads
    /\ \E search_term \in SearchTerms :
          threads' = threads \o
              <<Thread("search", JobId(search_term, clock), Wait("register")),
                Thread("run_scraper_job", JobId(search_term, clock), At("unstarted"))>>
    /\ UNCHANGED <<analyzerVars, serperVars, clock, active_jobs, records,
                   jobs_lock, data_files, analysis_files>>

analyze_csv ==
    /\ Cardinality({i \in 1..Len(threads) : threads[i].kind = "analyze_csv"})
           < MaxCsvRequests
    /\ \E filename \in CsvFiles :
          Arrive("analyze_csv", Splitext(filename), "register_csv")

clear_jobs == Arrive("clear_jobs", <<>>, "clear")

job_status == \E job_id \in KnownJobs : Arrive("job_status", job_id, "job_status")

get_job_status == \E job_id \in KnownJobs :
    Arrive("get_job_status", job_id, "get_job_status")

dashboard == \E job_id \in KnownJobs : Arrive("dashboard", job_id, "check")

get_analysis_data == \E job_id \in KnownJobs :
    Arrive("get_analysis_data", job_id, "check")

(* with jobs_lock: the thread enters the block when the lock is free *)
Acquire == \E t \in 1..Len(threads) :
    /\ threads[t].pc.at = "lock"
    /\ jobs_lock = 0
    /\ jobs_lock' = t
    /\ threads' = [threads EXCEPT ![t].pc.at = "in"]
    /\ UNCHANGED <<analyzerVars, serperVars, clock, active_jobs, records,
                   data_files, analysis_files>>

(* search: active_jobs[job_id] = {...}; then the job thread is started *)
Register == \E t \in 1..Len(threads) :
    /\ Locked(t, "register")
    /\ active_jobs' = (threads[t].job_id :> t) @@ active_jobs
    /\ records' = (t :> [status |-> "initializing", progress |-> 0,
                         error |-> FALSE]) @@ records
    /\ jobs_lock' = 0
    /\ threads' = [threads EXCEPT ![t].pc = At("done"),
                                  ![t + 1].pc = Wait("exists")]
    /\ UNCHANGED <<analyzerVars, serperVars, clock, data_files, analysis_files>>

(* run_scraper_job: if job_id not in active_jobs: return *)
CheckExists == \E t \in 1..Len(threads) :
    /\ Locked(t, "exists")
    /\ jobs_lock' = 0
    /\ threads' = Goto(t, IF threads[t].job_id \in DOMAIN active_jobs
                          THEN Wait("scraping") ELSE At("done"))
    /\ UNCHANGED <<analyzerVars, serperVars, clock, active_jobs, records,
                   data_files, analysis_files>>

(* a block of run_scraper_job that assigns to active_jobs[job_id]: it *)
(* raises KeyError, caught at line 269, when the entry is missing     *)
Assign(t, op, upd, next) ==
    /\ Locked(t, op)
    /\ jobs_lock' = 0
    /\ IF threads[t].job_id \in DOMAIN active_jobs
       THEN /\ records' = SetItems(threads[t].job_id, upd)
            /\ threads' = Goto(t, next)
       ELSE /\ records' = records
            /\ threads' = Goto(t, Wait("failed"))
    /\ UNCHANGED <<analyzerVars, serperVars, clock, active_jobs, data_files,
                   analysis_files>>

SetScraping == \E t \in 1..Len(threads) :
    Assign(t, "scraping", [status |-> "scraping"], WaitProgress(1))

(* update_progress: the n-th callback of the job *)
update_progress == \E t \in 1..Len(threads) :
    LET n == threads[t].pc.n
    IN  /\ threads[t].pc = [at |-> "in", op |-> "update_progress", n |-> n]
        /\ jobs_lock = t
        /\ jobs_lock' = 0
        /\ records' = IF threads[t].job_id \in DOMAIN active_jobs
                      THEN SetItems(threads[t].job_id, [progress |-> JobProgress(n)])
                      ELSE records
        /\ threads' = Goto(t, IF n = 1 THEN At("scrape")
                              ELSE IF n = 2 THEN Wait("analyzing")
                              ELSE IF n = 6 THEN At("open")
                              ELSE IF n = 7 THEN Wait("completed")
                              ELSE WaitProgress(n + 1))
        /\ UNCHANGED <<analyzerVars, serperVars, clock, active_jobs,
                       data_files, analysis_files>>

(* search_amazon: the pages are scraped and the data file is written, or *)
(* the driver raises                                                     *)
Scrape == \E t \in 1..Len(threads) :
    /\ Requested(t, "scrape")
    /\ \/ /\ data_files' = data_files \cup {threads[t].job_id}
          /\ threads' = Goto(t, WaitProgress(2))
       \/ /\ data_files' = data_files
          /\ threads' = Goto(t, Wait("failed"))
    /\ UNCHANGED <<analyzerVars, serperVars, clock, active_jobs, records,
                   jobs_lock, analysis_files>>

SetAnalyzing == \E t \in 1..Len(threads) :
    Assign(t, "analyzing", [status |-> "analyzing"], WaitProgress(3))

(* analyze_file in run_scraper_job: read_csv, clean_data or            *)
(* perform_analysis raises, before the callback that would follow it   *)
AnalysisRaises == \E t \in 1..Len(threads) :
    /\ threads[t].pc \in {WaitProgress(4), WaitProgress(5), WaitProgress(6)}
    /\ threads' = Goto(t, Wait("failed"))
    /\ UNCHANGED <<analyzerVars, serperVars, clock, active_jobs, records,
                   jobs_lock, data_files, analysis_files>>

(* analyze_file: open(output_file, 'w') creates or truncates the file *)
Open == \E t \in 1..Len(threads) :
    /\ Requested(t, "open")
    /\ analysis_files' = (threads[t].job_id :> "partial") @@ analysis_files
    /\ threads' = Goto(t, At("dump"))
    /\ UNCHANGED <<analyzerVars, serperVars, clock, active_jobs, records,
                   jobs_lock, data_files>>

(* analyze_file: json.dump writes the document and the file is closed *)
Dump == \E t \in 1..Len(threads) :
    /\ Requested(t, "dump")
    /\ analysis_files' = [analysis_files EXCEPT ![threads[t].job_id] = "complete"]
    /\ threads' = Goto(t, IF threads[t].kind = "run_scraper_job"
                          THEN WaitProgress(7) ELSE Wait("csv_completed"))
    /\ UNCHANGED <<analyzerVars, serperVars, clock, active_jobs, records,
                   jobs_lock, data_files>>

SetCompleted == \E t \in 1..Len(threads) :
    Assign(t, "completed", [status |-> "completed", progress |-> 100], At("done"))

(* run_scraper_job, except: the job is marked failed if it is registered *)
SetFailed == \E t \in 1..Len(threads) :
    /\ Locked(t, "failed")
    /\ jobs_lock' = 0
    /\ records' = IF threads[t].job_id \in DOMAIN active_jobs
                  THEN SetItems(threads[t].job_id,
                                [status |-> "failed", error |-> TRUE])
                  ELSE records
    /\ threads' = Goto(t, At("done"))
    /\ UNCHANGED <<analyzerVars, serperVars, clock, active_jobs, data_files,
                   analysis_files>>

(* analyze_csv: active_jobs[job_id] = {...} *)
RegisterCsv == \E t \in 1..Len(threads) :
    /\ Locked(t, "register_csv")
    /\ active_jobs' = (threads[t].job_id :> t) @@ active_jobs
    /\ records' = (t :> [status |-> "analyzing", progress |-> 50,
                         error |-> FALSE]) @@ records
    /\ jobs_lock' = 0
    /\ threads' = Goto(t, At("analyze"))
    /\ UNCHANGED <<analyzerVars, serperVars, clock, data_files, analysis_files>>

(* analyze_csv: analyze_file reads, cleans and analyzes, or raises *)
Analyze == \E t \in 1..Len(threads) :
    /\ Requested(t, "analyze")
    /\ \/ threads' = Goto(t, At("open"))
       \/ threads' = Goto(t, Wait("csv_failed"))
    /\ UNCHANGED <<analyzerVars, serperVars, clock, active_jobs, records,
                   jobs_lock, data_files, analysis_files>>

(* analyze_csv: the job is marked completed; KeyError goes to its except *)
CsvCompleted == \E t \in 1..Len(threads) :
    /\ Locked(t, "csv_completed")
    /\ jobs_lock' = 0
    /\ IF threads[t].job_id \in DOMAIN active_jobs
       THEN /\ records' = SetItems(threads[t].job_id,
                                   [status |-> "completed", progress |-> 100])
            /\ threads' = Goto(t, At("done"))
       ELSE /\ records' = records
            /\ threads' = Goto(t, Wait("csv_failed"))
    /\ UNCHANGED <<analyzerVars, serperVars, clock, active_jobs, data_files,
                   analysis_files>>

(* analyze_csv, except: active_jobs[job_id]['status'] = 'failed' without a *)
(* test: KeyError leaves the handler when the entry is missing             *)
CsvFailed == \E t \in 1..Len(threads) :
    /\ Locked(t, "csv_failed")
    /\ jobs_lock' = 0
    /\ IF threads[t].job_id \in DOMAIN active_jobs
       THEN /\ records' = SetItems(threads[t].job_id,
                                   [status |-> "failed", error |-> TRUE])
            /\ threads' = Goto(t, At("done"))
       ELSE /\ records' = records
            /\ threads' = Goto(t, At("escaped"))
    /\ UNCHANGED <<analyzerVars, serperVars, clock, active_jobs, data_files,
                   analysis_files>>

(* clear_jobs: active_jobs.clear() *)
Clear == \E t \in 1..Len(threads) :
    /\ Locked(t, "clear")
    /\ active_jobs' = <<>>
    /\ jobs_lock' = 0
    /\ threads' = Goto(t, At("done"))
    /\ UNCHANGED <<analyzerVars, serperVars, clock, records, data_files,
                   analysis_files>>

(* job_status: job_info = active_jobs[job_id], the record itself *)
JobStatusLookup == \E t \in 1..Len(threads) :
    /\ Locked(t, "job_status")
    /\ jobs_lock' = 0
    /\ threads' = IF threads[t].job_id \in DOMAIN active_jobs
                  THEN [threads EXCEPT
                           ![t].job_info = Ref(active_jobs[threads[t].job_id]),
                           ![t].pc = At("render")]
                  ELSE Goto(t, At("done"))
    /\ UNCHANGED <<analyzerVars, serperVars, clock, active_jobs, records,
                   data_files, analysis_files>>

(* job_status: render_template reads job_info after the block *)
Render == \E t \in 1..Len(threads) :
    /\ Requested(t, "render")
    /\ threads' = [threads EXCEPT
                      ![t].read = records[threads[t].job_info.obj].status,
                      ![t].job_info = NoInfo,
                      ![t].pc = At("done")]
    /\ UNCHANGED <<analyzerVars, serperVars, clock, active_jobs, records,
                   jobs_lock, data_files, analysis_files>>

(* get_job_status: jsonify(dict(active_jobs[job_id])) inside the block *)
GetJobStatus == \E t \in 1..Len(threads) :
    /\ Locked(t, "get_job_status")
    /\ jobs_lock' = 0
    /\ threads' = IF threads[t].job_id \in DOMAIN active_jobs
                  THEN LET job_info == Copy(records[active_jobs[threads[t].job_id]])
                       IN  [threads EXCEPT ![t].read = job_info.rec.status,
                                           ![t].pc = At("done")]
                  ELSE Goto(t, At("done"))
    /\ UNCHANGED <<analyzerVars, serperVars, clock, active_jobs, records,
                   data_files, analysis_files>>

(* dashboard, get_analysis_data: the job must be registered and completed *)
CheckCompleted == \E t \in 1..Len(threads) :
    /\ Locked(t, "check")
    /\ jobs_lock' = 0
    /\ threads' =
          IF /\ threads[t].job_id \in DOMAIN active_jobs
             /\ records[active_jobs[threads[t].job_id]].status = "completed"
          THEN [threads EXCEPT
                   ![t].job_info = Copy(records[active_jobs[threads[t].job_id]]),
                   ![t].pc = At("load")]
          ELSE [threads EXCEPT ![t].read = "refused", ![t].pc = At("done")]
    /\ UNCHANGED <<analyzerVars, serperVars, clock, active_jobs, records,
                   data_files, analysis_files>>

(* dashboard, get_analysis_data: the analysis file is read if it exists *)
Load == \E t \in 1..Len(threads) :
    /\ Requested(t, "load")
    /\ threads' = [threads EXCEPT
                      ![t].read = IF threads[t].job_id \in DOMAIN analysis_files
                                  THEN analysis_files[threads[t].job_id]
                                  ELSE "not_found",
                      ![t].job_info = NoInfo,
                      ![t].pc = At("done")]
    /\ UNCHANGED <<analyzerVars, serperVars, clock, active_jobs, records,
                   jobs_lock, data_files, analysis_files>>

InitJobs == AnalyzerIdle /\ SerperIdle /\ AppIdle

JobsNext ==
    \/ Tick
    \/ search
    \/ analyze_csv
    \/ clear_jobs
    \/ job_status
    \/ get_job_status
    \/ dashboard
    \/ get_analysis_data
    \/ Acquire
    \/ Register
    \/ CheckExists
    \/ SetScraping
    \/ update_progress
    \/ Scrape
    \/ SetAnalyzing
    \/ AnalysisRaises
    \/ Open
    \/ Dump
    \/ SetCompleted
    \/ SetFailed
    \/ RegisterCsv
    \/ Analyze
    \/ CsvCompleted
    \/ CsvFailed
    \/ Clear
    \/ JobStatusLookup
    \/ Render
    \/ GetJobStatus
    \/ CheckCompleted
    \/ Load

JobsSpec == InitJobs /\ [][JobsNext]_vars

-----------------------------------------------------------------------------
(* The job registry: job IDs, locking, lifecycle *)

Threads(kind) == {t \in 1..Len(threads) : threads[t].kind = kind}

(* C26: every submission to /search gets a unique job ID: no two search *)
(* submissions map to the same key of active_jobs, so no two background *)
(* job threads update the same registry entry or write the same files.  *)
C26_UniqueJobIds ==
    /\ \A s, t \in Threads("search") :
           s # t => threads[s].job_id # threads[t].job_id
    /\ \A s, t \in Threads("run_scraper_job") :
           s # t => threads[s].job_id # threads[t].job_id

(* the record of active_jobs the thread's block assigns to *)
Writes(t) ==
    /\ jobs_lock = t
    /\ threads[t].kind \in {"run_scraper_job", "analyze_csv"}
    /\ threads[t].job_id \in DOMAIN active_jobs

(* C27: every read or write of active_jobs or of a job's record happens   *)
(* while jobs_lock is held, and data handed out of a locked section is a  *)
(* copy, so no handler reads a job record while the background thread is  *)
(* writing it.                                                            *)
C27_Serialized ==
    \A t \in 1..Len(threads) :
        /\ threads[t].pc.at = "in" => jobs_lock = t
        /\ jobs_lock # t => threads[t].job_info.k # "ref"
        /\ \A w \in 1..Len(threads) :
               (threads[t].job_info.k = "ref" /\ w # t /\ Writes(w))
                   => active_jobs[threads[w].job_id] # threads[t].job_info.obj

(* the status of the job in the registry *)
StatusOf(j) ==
    IF j \in DOMAIN active_jobs THEN records[active_jobs[j]].status ELSE "absent"

ServeKinds == {"dashboard", "get_analysis_data"}

(* C28: a job's status is 'completed' only after analyze_file has written *)
(* the job's analysis artifact, and the dashboard and /api/analysis serve *)
(* a job only if their check found it registered and completed; hence     *)
(* none of them reads an analysis file that is absent or partially        *)
(* written.                                                               *)
C28_ServeCompleteArtifact ==
    /\ \A j \in DOMAIN active_jobs :
           StatusOf(j) = "completed" =>
               j \in DOMAIN analysis_files /\ analysis_files[j] = "complete"
    /\ \A t \in 1..Len(threads) :
           threads[t].kind \in ServeKinds =>
               /\ threads[t].pc = At("load") =>
                      /\ threads[t].job_info.k = "copy"
                      /\ threads[t].job_info.rec.status = "completed"
               /\ threads[t].read \notin {"partial", "not_found"}

(* the job IDs /search can create *)
SearchJobIds == {JobId(s, c) : s \in SearchTerms, c \in 0..MaxClock}

(* the moves of a job's status in the registry *)
Moves(old, new) ==
    \/ new = old
    \/ new = "absent"
    \/ old = "absent" /\ new = "initializing"
    \/ old = "initializing" /\ new = "scraping"
    \/ old = "scraping" /\ new = "analyzing"
    \/ old = "analyzing" /\ new = "completed"
    \/ old \in {"initializing", "scraping", "analyzing"} /\ new = "failed"

Ended(t) == threads[t].pc = At("done")

(* a step of the lifecycle: the status moves in order, and a job thread *)
(* that returns leaves its job absent, completed or failed              *)
LifecycleStep ==
    /\ \A j \in SearchJobIds : Moves(StatusOf(j), StatusOf(j)')
    /\ \A t \in Threads("run_scraper_job") :
           (~ Ended(t) /\ Ended(t)') =>
               StatusOf(threads[t].job_id)' \in {"absent", "completed", "failed"}

(* a failed job carries an error, and a job in 'scraping' or 'analyzing' *)
(* has a thread that has not ended                                       *)
LifecycleState ==
    \A j \in SearchJobIds :
        /\ StatusOf(j) = "failed" => records[active_jobs[j]].error
        /\ StatusOf(j) \in {"scraping", "analyzing"} =>
               \E t \in Threads("run_scraper_job") :
                   threads[t].job_id = j /\ ~ Ended(t)

(* C29: the status of a job created by /search only moves initializing -> *)
(* scraping -> analyzing -> completed, or from a non-terminal status to   *)
(* failed; when run_scraper_job returns the job is absent, completed or   *)
(* failed, a failed job carries an error, and a job never stays in        *)
(* 'scraping' or 'analyzing' after its thread has ended.                  *)
C29_Lifecycle == [] LifecycleState /\ [][LifecycleStep]_vars

(* the job IDs of the model *)
JobIds == SearchJobIds \cup {Splitext(f) : f \in CsvFiles}

(* C30: whatever the interleaving of /clear-jobs with a running job, the *)
(* job's code lets no missing-entry error escape its error handling and  *)
(* never re-creates the cleared entry: a job ID enters active_jobs only  *)
(* in the registration of a /search or /analyze-csv request.             *)
C30_ClearedStaysCleared ==
    /\ [] (\A t \in 1..Len(threads) : threads[t].pc # At("escaped"))
    /\ [][\A j \in JobIds :
            (j \notin DOMAIN active_jobs /\ j \in DOMAIN active_jobs')
                => (Register \/ RegisterCsv)]_vars

(* no two requests that register a job use the same job ID *)
UniqueRuns ==
    \A s, t \in Threads("search") \cup Threads("analyze_csv") :
        s # t => threads[s].job_id # threads[t].job_id

(* with one run for each job ID, a completed job has its whole artifact *)
(* and no handler reads a partial or missing one                        *)
ArtifactOfSingleRun == UniqueRuns => C28_ServeCompleteArtifact

(* with one run for each job ID, the lifecycle of the job holds *)
LifecycleOfSingleRun ==
    [] (UniqueRuns => LifecycleState) /\ [][UniqueRuns' => LifecycleStep]_vars

(* run_scraper_job lets no error escape *)
JobThreadCatches ==
    \A t \in Threads("run_scraper_job") : threads[t].pc # At("escaped")

=============================================================================
